---------------------------- MODULE Spec2Model ----------------------------
(***************************************************************************)
(* Stroke-to-letter alignment and correctness engine of the stroke         *)
(* analyzer.  Two builds of the analyzer are modelled:                     *)
(*   "insertion" : src/analyzer_refactored.py (legacy index-keyed map,     *)
(*                 stroke split by inserting two events)                   *)
(*   "relabel"   : src/portable build/.../analyzer_refactored.py (letter   *)
(*                 objects with stroke ids, stroke split by relabelling)   *)
(*                                                                         *)
(* Strings are sequences of one-character strings; the empty string ""     *)
(* (a blocker value) is the empty sequence of characters when it is part   *)
(* of a word and the value "" when it is a letter's char.  Python lists    *)
(* and event indices are 0-based; sequences here are 1-based, so event     *)
(* index i of the code is element i + 1 of the sequence.  Keys of the      *)
(* assigned_letters dict are canonical decimal strings in the code         *)
(* (str(int)); they are modelled by the integers they denote.              *)
(***************************************************************************)
EXTENDS Integers, Sequences, FiniteSets, TLC

VARIABLES
    build,               \* which analyzer build is running
    pen_data,            \* PenDataPlayer.pen_data: flattened list of word records
    current_word_index,  \* PenDataPlayer.current_word_index (-1: none)
    current_event_index, \* PenDataPlayer.current_event_index
    total_events,        \* PenDataPlayer.total_events
    word_correctness,    \* PenDataPlayer.word_correctness: word index -> bool
    written_words,       \* PenDataPlayer.written_words: word index -> string
    train_mode,          \* PenDataPlayer.train_mode: word index -> mode
    canvas,              \* AnimationCanvas fields (letters, strokes, selection)
    event_slider,        \* QSlider state: [maximum]
    train_mode_combo,    \* current text of the train-mode selector
    last,                \* history: the last slice request and the state it ran in
    pure                 \* call record of a pure function: arguments and result

vars == <<build, pen_data, current_word_index, current_event_index, total_events,
          word_correctness, written_words, train_mode, canvas, event_slider,
          train_mode_combo, last, pure>>

uiVars == <<build, pen_data, current_word_index, current_event_index, total_events,
            word_correctness, written_words, train_mode, canvas, event_slider,
            train_mode_combo, last>>

-----------------------------------------------------------------------------
(* Bounds of the model *)

\* keys of an assigned_letters argument range over 0..MaxKey
MaxKey == 2
\* target words have at most MaxWordLen characters
MaxWordLen == 3
\* the event stream of a word grows to at most MaxEvents events (a split of
\* the insertion build adds two)
MaxEvents == 9
\* event lists handed to downsample_stroke_events have at most MaxSampleLen events
MaxSampleLen == 4
\* streams of a session on the two-word file grow to at most MaxEventsTwoWords events
MaxEventsTwoWords == 5
\* Letter lists handed to letters_to_assigned_letters have at most MaxLetters letters
MaxLetters == 2

Chars == {"a", "b"}
\* characters the annotator types in the modelled sessions
TypedChars == {"a"}
Blocker == ""
CharValues == Chars \cup {Blocker}

-----------------------------------------------------------------------------
(* Generic helpers *)

Max(a, b) == IF a >= b THEN a ELSE b
Min(a, b) == IF a <= b THEN a ELSE b
SetMin(S) == CHOOSE x \in S : \A y \in S : x <= y
SetMax(S) == CHOOSE x \in S : \A y \in S : x >= y

RECURSIVE SortedSeq(_)
\* sorted(S) for a finite set of integers
SortedSeq(S) ==
    IF S = {} THEN <<>>
    ELSE LET m == SetMin(S) IN <<m>> \o SortedSeq(S \ {m})

Range(s) == {s[i] : i \in DOMAIN s}

EmptyDict == [k \in {} |-> Blocker]

\* bounded universe of strings over Chars
RECURSIVE WordsUpTo(_)
WordsUpTo(n) ==
    IF n = 0 THEN {<<>>}
    ELSE LET W == WordsUpTo(n - 1)
         IN W \cup {Append(w, c) : w \in {x \in W : Len(x) = n - 1}, c \in Chars}

\* bounded universe of assigned_letters dicts
DictsOver(K) == UNION {[S -> CharValues] : S \in SUBSET K}

-----------------------------------------------------------------------------
(* Pure functions of the correctness engine *)

get_sorted_letter_indices(assigned_letters) ==
    IF DOMAIN assigned_letters = {} THEN <<>>
    ELSE SortedSeq(DOMAIN assigned_letters)

RECURSIVE JoinNonBlockers(_, _)
\* ''.join(assigned_letters[str(idx)] for idx in sorted_indices if assigned_letters[str(idx)])
JoinNonBlockers(assigned_letters, sorted_indices) ==
    IF sorted_indices = <<>> THEN <<>>
    ELSE LET c == assigned_letters[Head(sorted_indices)]
             rest == JoinNonBlockers(assigned_letters, Tail(sorted_indices))
         IN IF c = Blocker THEN rest ELSE <<c>> \o rest

build_written_word(assigned_letters) ==
    IF DOMAIN assigned_letters = {} THEN <<>>
    ELSE JoinNonBlockers(assigned_letters, get_sorted_letter_indices(assigned_letters))

\* variant of has_blocker that never reports a blocker
has_blocker_never(assigned_letters) == FALSE

has_blocker(assigned_letters) ==
    IF DOMAIN assigned_letters = {} THEN FALSE
    ELSE \E k \in DOMAIN assigned_letters : assigned_letters[k] = Blocker

RECURSIVE ScanTarget_no_consume(_, _, _)
\* variant of ScanTarget that leaves a matched target character unconsumed
ScanTarget_no_consume(target_word, target_idx, char) ==
    IF target_idx < Len(target_word)
    THEN IF target_word[target_idx + 1] = char
         THEN <<TRUE, target_idx>>
         ELSE ScanTarget_no_consume(target_word, target_idx + 1, char)
    ELSE <<FALSE, target_idx>>

RECURSIVE ScanTarget(_, _, _)
\* the inner while loop: scan target_word from target_idx (0-based) for char;
\* returns <<found, target_idx after the scan>>
ScanTarget(target_word, target_idx, char) ==
    IF target_idx < Len(target_word)
    THEN IF target_word[target_idx + 1] = char
         THEN <<TRUE, target_idx + 1>>
         ELSE ScanTarget(target_word, target_idx + 1, char)
    ELSE <<FALSE, target_idx>>

RECURSIVE GreedyMatch(_, _, _)
\* the for loop over the characters of written
GreedyMatch(written, target_word, target_idx) ==
    IF written = <<>> THEN TRUE
    ELSE LET r == ScanTarget(target_word, target_idx, Head(written))
         IN IF ~r[1] THEN FALSE
            ELSE GreedyMatch(Tail(written), target_word, r[2])

check_partial_or_full_match(assigned_letters, target_word) ==
    IF DOMAIN assigned_letters = {} THEN FALSE
    ELSE LET written == build_written_word(assigned_letters)
         IN IF written = <<>> THEN FALSE
            ELSE IF written = target_word THEN TRUE
            ELSE GreedyMatch(written, target_word, 0)

\* variant of compute_correctness_and_written that tests for a blocker before
\* the match
compute_blocker_first(assigned_letters, original_word) ==
    IF DOMAIN assigned_letters = {} THEN <<TRUE, original_word>>
    ELSE IF has_blocker(assigned_letters) THEN <<FALSE, <<>> >>
    ELSE IF check_partial_or_full_match(assigned_letters, original_word)
         THEN <<TRUE, original_word>>
    ELSE <<FALSE, build_written_word(assigned_letters)>>

\* variant of compute_correctness_and_written without the empty-map rule
compute_no_empty_rule(assigned_letters, original_word) ==
    IF check_partial_or_full_match(assigned_letters, original_word)
    THEN <<TRUE, original_word>>
    ELSE IF has_blocker(assigned_letters) THEN <<FALSE, <<>> >>
    ELSE <<FALSE, build_written_word(assigned_letters)>>

compute_correctness_and_written(assigned_letters, original_word) ==
    IF DOMAIN assigned_letters = {} THEN <<TRUE, original_word>>
    ELSE IF check_partial_or_full_match(assigned_letters, original_word)
         THEN <<TRUE, original_word>>
    ELSE IF has_blocker(assigned_letters) THEN <<FALSE, <<>> >>
    ELSE <<FALSE, build_written_word(assigned_letters)>>

-----------------------------------------------------------------------------
(* Event stream model *)

\* pen event of 0-based index i
EventAt(pen_events, i) == pen_events[i + 1]

\* [i for i, e in enumerate(pen_events) if e["type"] == ty], ascending, 0-based
IndicesOfType(pen_events, ty) ==
    SortedSeq({i \in 0..(Len(pen_events) - 1) : EventAt(pen_events, i).type = ty})

\* returns <<stroke_starts, stroke_ends>>
find_stroke_indices(pen_events) ==
    <<IndicesOfType(pen_events, "press"), IndicesOfType(pen_events, "release")>>

\* element i (0-based) of a Python list
At(list, i) == list[i + 1]

RECURSIVE StrokeIdScan(_, _, _)
\* for i in range(len(stroke_starts) - 1, -1, -1): if event_idx >= stroke_starts[i]: return i
StrokeIdScan(event_idx, stroke_starts, i) ==
    IF i < 0 THEN 0
    ELSE IF event_idx >= At(stroke_starts, i) THEN i
    ELSE StrokeIdScan(event_idx, stroke_starts, i - 1)

\* variant of get_stroke_id_for_event that scans the strokes first to last
get_stroke_id_first_not_after(event_idx, stroke_starts) ==
    IF \E i \in 0..(Len(stroke_starts) - 1) : event_idx >= At(stroke_starts, i)
    THEN SetMin({i \in 0..(Len(stroke_starts) - 1) : event_idx >= At(stroke_starts, i)})
    ELSE 0

get_stroke_id_for_event(event_idx, stroke_starts) ==
    StrokeIdScan(event_idx, stroke_starts, Len(stroke_starts) - 1)

-----------------------------------------------------------------------------
(* Letter segments of the trainable export *)

\* variant of build_letter_segments whose segments end on the next key
build_letter_segments_end_on_next(assigned_letters, num_events) ==
    IF DOMAIN assigned_letters = {} THEN <<>>
    ELSE LET sorted_indices == get_sorted_letter_indices(assigned_letters)
         IN [n \in 1..Len(sorted_indices) |->
               [char |-> assigned_letters[sorted_indices[n]],
                first_event |-> sorted_indices[n],
                last_event |-> IF n - 1 < Len(sorted_indices) - 1
                               THEN sorted_indices[n + 1]
                               ELSE num_events - 1]]

\* segment i (0-based) is element i + 1 of the result
build_letter_segments(assigned_letters, num_events) ==
    IF DOMAIN assigned_letters = {} THEN <<>>
    ELSE LET sorted_indices == get_sorted_letter_indices(assigned_letters)
         IN [n \in 1..Len(sorted_indices) |->
               LET i == n - 1
                   start_idx == At(sorted_indices, i)
                   end_idx == IF i < Len(sorted_indices) - 1
                              THEN At(sorted_indices, i + 1) - 1
                              ELSE num_events - 1
               IN [char |-> assigned_letters[start_idx],
                   first_event |-> start_idx,
                   last_event |-> end_idx]]

-----------------------------------------------------------------------------
(* Downsampling of a stroke's events for the trainable export.  A sample is *)
(* [type, x, y, absolute_time]; absolute_time is held in whole              *)
(* milliseconds, so the code's (seconds difference) * 1000 is the plain     *)
(* difference.  None is the empty sequence, a value v is <<v>>.             *)

\* variant of AlwaysKept that keeps only press events unconditionally
AlwaysKept_press_only(event) == event.type = "press"

\* event["type"] in ("press", "release")
AlwaysKept(event) == event.type \in {"press", "release"}

\* Python truth of last_kept_time: None and 0 are false
Truthy(last_kept_time) == last_kept_time # <<>> /\ last_kept_time[1] # 0

\* (dx**2 + dy**2)**0.5 >= min_distance_px, over the integers
DistanceAtLeast(dx, dy, min_distance_px) ==
    min_distance_px <= 0 \/ dx * dx + dy * dy >= min_distance_px * min_distance_px

RECURSIVE DownsampleLoop_previous_event(_, _, _, _, _, _, _)
\* variant of DownsampleLoop that measures every move against the event before
\* it in the input, kept or not
DownsampleLoop_previous_event(events, i, filtered, last_kept_event, last_kept_time, target_interval_ms, min_distance_px) ==
    IF i > Len(events) THEN filtered
    ELSE LET event == events[i]
             keep == DownsampleLoop_previous_event(events, i + 1, Append(filtered, event),
                                    <<event>>, <<event.absolute_time>>,
                                    target_interval_ms, min_distance_px)
             skip == DownsampleLoop_previous_event(events, i + 1, filtered,
                                    <<event>>, <<event.absolute_time>>,
                                    target_interval_ms, min_distance_px)
         IN IF AlwaysKept(event) THEN keep
            ELSE IF last_kept_event = <<>> THEN keep
            ELSE LET current_time == event.absolute_time
                     time_delta_ms == IF Truthy(last_kept_time)
                                      THEN current_time - last_kept_time[1]
                                      ELSE 0
                     dx == event.x - last_kept_event[1].x
                     dy == event.y - last_kept_event[1].y
                 IN IF time_delta_ms >= target_interval_ms
                       \/ DistanceAtLeast(dx, dy, min_distance_px)
                    THEN keep
                    ELSE skip

RECURSIVE DownsampleLoop(_, _, _, _, _, _, _)
\* the loop "for i, event in enumerate(events)" from position i (1-based) on
DownsampleLoop(events, i, filtered, last_kept_event, last_kept_time, target_interval_ms, min_distance_px) ==
    IF i > Len(events) THEN filtered
    ELSE LET event == events[i]
             keep == DownsampleLoop(events, i + 1, Append(filtered, event), <<event>>,
                                    <<event.absolute_time>>,
                                    target_interval_ms, min_distance_px)
             skip == DownsampleLoop(events, i + 1, filtered, last_kept_event,
                                    last_kept_time, target_interval_ms, min_distance_px)
         IN IF AlwaysKept(event) THEN keep
            ELSE IF last_kept_event = <<>> THEN keep
            ELSE LET current_time == event.absolute_time
                     time_delta_ms == IF Truthy(last_kept_time)
                                      THEN current_time - last_kept_time[1]
                                      ELSE 0
                     dx == event.x - last_kept_event[1].x
                     dy == event.y - last_kept_event[1].y
                 IN IF time_delta_ms >= target_interval_ms
                       \/ DistanceAtLeast(dx, dy, min_distance_px)
                    THEN keep
                    ELSE skip

downsample_stroke_events(events, target_interval_ms, min_distance_px) ==
    IF events = <<>> \/ Len(events) <= 2 THEN events
    ELSE DownsampleLoop(events, 1, <<>>, <<>>, <<>>, target_interval_ms, min_distance_px)

\* the defaults of the signature, which are the values the export passes
DefaultInterval == 25
DefaultDistance == 3

\* event.pop('event_id', None) on a copy of the event
PopEventId(event) == [k \in (DOMAIN event) \ {"event_id"} |-> event[k]]

\* variant of Zip that pairs every press, with itself when no release is left
Zip_every_start(a, b) ==
    [i \in 1..Len(a) |-> <<a[i], IF i <= Len(b) THEN b[i] ELSE a[i]>>]

\* zip(stroke_starts, stroke_ends)
Zip(a, b) == [i \in 1..Min(Len(a), Len(b)) |-> <<a[i], b[i]>>]

RECURSIVE StrokeEventsFrom(_, _, _)
\* for i in range(start_idx, end_idx + 1): if i < len(pen_events): append the
\* copy of pen_events[i] without its event_id
StrokeEventsFrom(pen_events, i, end_idx) ==
    IF i > end_idx THEN <<>>
    ELSE (IF i < Len(pen_events) THEN <<PopEventId(EventAt(pen_events, i))>> ELSE <<>>)
         \o StrokeEventsFrom(pen_events, i + 1, end_idx)

\* the strokes list export_trainable_json builds for one word
ExportStrokes(pen_events) ==
    LET strokes == find_stroke_indices(pen_events)
        pairs == Zip(strokes[1], strokes[2])
    IN [n \in 1..Len(pairs) |->
          [stroke_id |-> n - 1,
           events |-> downsample_stroke_events(
                          StrokeEventsFrom(pen_events, pairs[n][1], pairs[n][2]),
                          DefaultInterval, DefaultDistance)]]

-----------------------------------------------------------------------------
(* Letter / segment model (relabel build) *)

LetterObject(char, stroke_ids) == [char |-> char, stroke_ids |-> stroke_ids]

DictSet(d, k, v) == [x \in (DOMAIN d) \cup {k} |-> IF x = k THEN v ELSE d[x]]
DictDel(d, k) == [x \in (DOMAIN d) \ {k} |-> d[x]]
\* d.get(k, default)
DictGet(d, k, default) == IF k \in DOMAIN d THEN d[k] ELSE default

RECURSIVE LettersToAssigned_last_stroke(_, _, _)
\* variant of LettersToAssignedFrom that keys a letter by its last stroke
LettersToAssigned_last_stroke(letters, stroke_starts, assigned) ==
    IF letters = <<>> THEN assigned
    ELSE LET letter == Head(letters)
             last_stroke_idx == SetMax(Range(letter.stroke_ids))
             next == IF letter.stroke_ids # <<>> /\ last_stroke_idx < Len(stroke_starts)
                     THEN DictSet(assigned, At(stroke_starts, last_stroke_idx), letter.char)
                     ELSE assigned
         IN LettersToAssigned_last_stroke(Tail(letters), stroke_starts, next)

RECURSIVE LettersToAssignedFrom(_, _, _)
\* the loop of letters_to_assigned_letters, a later letter overwriting an equal key
LettersToAssignedFrom(letters, stroke_starts, assigned) ==
    IF letters = <<>> THEN assigned
    ELSE LET letter == Head(letters)
             first_stroke_idx == SetMin(Range(letter.stroke_ids))
             next == IF letter.stroke_ids # <<>> /\ first_stroke_idx < Len(stroke_starts)
                     THEN DictSet(assigned, At(stroke_starts, first_stroke_idx), letter.char)
                     ELSE assigned
         IN LettersToAssignedFrom(Tail(letters), stroke_starts, next)

letters_to_assigned_letters(letters, stroke_starts) ==
    LettersToAssignedFrom(letters, stroke_starts, EmptyDict)

RECURSIVE AssignedToLettersFrom(_, _, _)
AssignedToLettersFrom(assigned_letters, stroke_starts, sorted_event_indices) ==
    IF sorted_event_indices = <<>> THEN <<>>
    ELSE LET event_idx == Head(sorted_event_indices)
             char == assigned_letters[event_idx]
             stroke_id == get_stroke_id_for_event(event_idx, stroke_starts)
         IN <<LetterObject(char, <<stroke_id>>)>> \o
            AssignedToLettersFrom(assigned_letters, stroke_starts, Tail(sorted_event_indices))

\* the decimal digits of a key below 100, as str(k) writes them
Decimal(k) == IF k < 10 THEN <<k>> ELSE <<k \div 10, k % 10>>

\* string order of two keys as written by str
LexLess(a, b) ==
    LET x == Decimal(a)
        y == Decimal(b)
    IN \/ x[1] < y[1]
       \/ x[1] = y[1] /\ Len(x) < Len(y)
       \/ x[1] = y[1] /\ Len(x) = Len(y) /\ Len(x) = 2 /\ x[2] < y[2]

RECURSIVE LexSortedSeq(_)
\* sorted(S) for a set of keys compared as strings
LexSortedSeq(S) ==
    IF S = {} THEN <<>>
    ELSE LET m == CHOOSE x \in S : \A y \in S \ {x} : LexLess(x, y)
         IN <<m>> \o LexSortedSeq(S \ {m})

\* variant of assigned_letters_to_letters that sorts the keys as strings
assigned_letters_to_letters_lexical(assigned_letters, stroke_starts) ==
    IF DOMAIN assigned_letters = {} THEN <<>>
    ELSE AssignedToLettersFrom(assigned_letters, stroke_starts,
                               LexSortedSeq(DOMAIN assigned_letters))

assigned_letters_to_letters(assigned_letters, stroke_starts) ==
    IF DOMAIN assigned_letters = {} THEN <<>>
    ELSE AssignedToLettersFrom(assigned_letters, stroke_starts,
                               SortedSeq(DOMAIN assigned_letters))

-----------------------------------------------------------------------------
(* The analyzer window: state record and Qt widget behaviour.               *)
(* A handler is an operator from the state record before it to the state   *)
(* record after it, so that handlers calling handlers compose.             *)

TRAIN_MODE_MAP ==
    [t \in {"Trainable", "Low-Quality Trainable", "Untrainable"} |->
        CASE t = "Trainable" -> "trainable"
          [] t = "Low-Quality Trainable" -> "low-quality"
          [] t = "Untrainable" -> "untrainable"]

TRAIN_MODE_DISPLAY ==
    [m \in {"trainable", "low-quality", "untrainable"} |->
        CHOOSE t \in DOMAIN TRAIN_MODE_MAP : TRAIN_MODE_MAP[t] = m]

State ==
    [pen_data |-> pen_data,
     current_word_index |-> current_word_index,
     current_event_index |-> current_event_index,
     total_events |-> total_events,
     word_correctness |-> word_correctness,
     written_words |-> written_words,
     train_mode |-> train_mode,
     canvas |-> canvas,
     event_slider |-> event_slider,
     train_mode_combo |-> train_mode_combo]

\* the word record of 0-based flattened index i
WordAt(s, i) == s.pen_data[i + 1]
\* variant of SetWord that stores the record in every word of the list
SetWord_every(s, i, wd) == [s EXCEPT !.pen_data = [j \in DOMAIN @ |-> wd]]
SetWord(s, i, wd) == [s EXCEPT !.pen_data[i + 1] = wd]

\* canvas.pen_events is the list object of the loaded word's record
CanvasPenEvents(s) ==
    IF s.current_word_index >= 0
    THEN DictGet(WordAt(s, s.current_word_index), "pen_events", <<>>)
    ELSE <<>>

\* canvas.current_event_index only decides what is painted and the slider's
\* own value only decides whether a setValue signals; neither is read by a
\* handler that edits letters or events, and both are left out of the state.
\* The slider's value is taken to be current_event_index: the two differ in
\* the relabel build after a stroke selection (setValue with signals blocked),
\* which changes no index the user could not reach by moving the slider.
slider_changed(s, value) == [s EXCEPT !.current_event_index = value]

\* QSlider.setValue: clamps to the range, emits valueChanged on a change unless
\* signals are blocked
SliderSetValue(s, v, blocked) ==
    LET nv == Max(0, Min(v, s.event_slider.maximum))
    IN IF nv = s.current_event_index \/ blocked THEN s
       ELSE slider_changed(s, nv)

\* QSlider.setMaximum: a value above the new maximum is clamped and signalled
SliderSetMaximum(s, m) ==
    LET s1 == [s EXCEPT !.event_slider.maximum = m]
    IN IF s.current_event_index > m THEN slider_changed(s1, m) ELSE s1

on_train_mode_changed(s, text) ==
    IF s.current_word_index >= 0
    THEN [s EXCEPT !.train_mode =
             DictSet(@, s.current_word_index,
                     DictGet(TRAIN_MODE_MAP, text, "trainable"))]
    ELSE s

\* QComboBox.setCurrentText: emits currentTextChanged only on a change and only
\* when signals are not blocked
ComboSetCurrentText(s, text, blocked) ==
    IF text = s.train_mode_combo THEN s
    ELSE LET s1 == [s EXCEPT !.train_mode_combo = text]
         IN IF blocked THEN s1 ELSE on_train_mode_changed(s1, text)

\* variant of should_be_low_quality without the first-stroke check
should_be_low_quality_blockers_only(assigned_letters, pen_events) ==
    /\ DOMAIN assigned_letters # {}
    /\ pen_events # <<>>
    /\ \E k \in DOMAIN assigned_letters : assigned_letters[k] = Blocker

should_be_low_quality(assigned_letters, pen_events) ==
    IF DOMAIN assigned_letters = {} \/ pen_events = <<>> THEN FALSE
    ELSE IF \E k \in DOMAIN assigned_letters : assigned_letters[k] = Blocker THEN TRUE
    ELSE LET sorted_indices == get_sorted_letter_indices(assigned_letters)
             stroke_starts == find_stroke_indices(pen_events)[1]
         IN IF sorted_indices = <<>> THEN FALSE
            ELSE stroke_starts # <<>> /\ Head(sorted_indices) # At(stroke_starts, 0)

\* variant of _update_train_mode_for_letters that follows the heuristic both ways
_update_train_mode_two_way(s) ==
    IF s.current_word_index < 0 THEN s
    ELSE LET word_data == WordAt(s, s.current_word_index)
             assigned == DictGet(word_data, "assigned_letters", EmptyDict)
             pen_events == DictGet(word_data, "pen_events", <<>>)
             mode == IF should_be_low_quality(assigned, pen_events)
                     THEN "low-quality" ELSE "trainable"
         IN ComboSetCurrentText(
                [s EXCEPT !.train_mode = DictSet(@, s.current_word_index, mode)],
                TRAIN_MODE_DISPLAY[mode], TRUE)

_update_train_mode_for_letters(s) ==
    IF s.current_word_index < 0 THEN s
    ELSE LET word_data == WordAt(s, s.current_word_index)
             assigned == DictGet(word_data, "assigned_letters", EmptyDict)
             pen_events == DictGet(word_data, "pen_events", <<>>)
         IN IF should_be_low_quality(assigned, pen_events)
            THEN ComboSetCurrentText(
                     [s EXCEPT !.train_mode = DictSet(@, s.current_word_index, "low-quality")],
                     "Low-Quality Trainable", TRUE)
            ELSE s

\* AnimationCanvas.load_word_data of the relabel build
load_word_data(s, word_data) ==
    LET pen_events == DictGet(word_data, "pen_events", <<>>)
        strokes == find_stroke_indices(pen_events)
        letters == IF "letters" \in DOMAIN word_data THEN word_data.letters
                   ELSE IF "assigned_letters" \in DOMAIN word_data
                        THEN assigned_letters_to_letters(word_data.assigned_letters, strokes[1])
                   ELSE <<>>
    IN [s EXCEPT !.canvas =
           [letters |-> letters,
            stroke_starts |-> strokes[1],
            stroke_ends |-> strokes[2],
            selected_strokes |-> IF strokes[1] # <<>> THEN {0} ELSE {}]]

\* AnimationCanvas.load_word_data of the insertion build (canvas.assigned_letters
\* and canvas.pen_events are the word record's own objects)
load_word_data_map(s, word_data) == s

\* PenDataPlayer.load_word, the same text in both builds apart from the canvas
load_word(s, b, index) ==
    LET s0 == [s EXCEPT !.current_word_index = index]
        word_data == WordAt(s0, index)
        s1 == IF b = "relabel" THEN load_word_data(s0, word_data)
              ELSE load_word_data_map(s0, word_data)
        n == Len(DictGet(word_data, "pen_events", <<>>))
        s2 == [s1 EXCEPT !.total_events = n, !.current_event_index = 0]
        s3 == SliderSetValue(SliderSetMaximum(s2, Max(0, n - 1)), 0, FALSE)
        assigned_letters == DictGet(word_data, "assigned_letters", EmptyDict)
        original_word == DictGet(word_data, "word", <<>>)
        r == compute_correctness_and_written(assigned_letters, original_word)
        s4 == [s3 EXCEPT !.word_correctness = DictSet(@, index, r[1]),
                         !.written_words = DictSet(@, index, r[2])]
        mode == DictGet(s4.train_mode, index, "trainable")
    IN ComboSetCurrentText(s4, DictGet(TRAIN_MODE_DISPLAY, mode, "Trainable"), FALSE)

-----------------------------------------------------------------------------
(* Letter assignment, insertion build (src/analyzer_refactored.py) *)

ActiveWord(s) == WordAt(s, s.current_word_index)

Recompute(s, word_data) ==
    LET r == compute_correctness_and_written(word_data.assigned_letters,
                                             DictGet(word_data, "word", <<>>))
    IN [s EXCEPT !.word_correctness = DictSet(@, s.current_word_index, r[1]),
                 !.written_words = DictSet(@, s.current_word_index, r[2])]

\* the dialog was accepted with hebrew_char ("" for a blocker)
assign_letter_to_stroke(s, stroke_start_idx, hebrew_char) ==
    IF s.current_word_index < 0 THEN s
    ELSE LET wd0 == ActiveWord(s)
             wd1 == IF "assigned_letters" \in DOMAIN wd0 THEN wd0
                    ELSE DictSet(wd0, "assigned_letters", EmptyDict)
             wd2 == [wd1 EXCEPT !.assigned_letters = DictSet(@, stroke_start_idx, hebrew_char)]
             s1 == _update_train_mode_for_letters(SetWord(s, s.current_word_index, wd2))
         IN Recompute(s1, wd2)

\* the Delete branch of edit_assigned_letter
DeleteAssignedLetter(s, stroke_start_idx) ==
    IF s.current_word_index < 0 THEN s
    ELSE LET word_data == ActiveWord(s)
             assigned == DictGet(word_data, "assigned_letters", EmptyDict)
         IN IF stroke_start_idx \notin DOMAIN assigned THEN s
            ELSE _update_train_mode_for_letters(
                     SetWord(s, s.current_word_index,
                             [word_data EXCEPT !.assigned_letters = DictDel(@, stroke_start_idx)]))

\* choice: <<"delete">> or <<"replace", hebrew_char>>
edit_assigned_letter(s, stroke_start_idx, choice) ==
    IF s.current_word_index < 0 THEN s
    ELSE IF stroke_start_idx \notin
              DOMAIN DictGet(ActiveWord(s), "assigned_letters", EmptyDict) THEN s
    ELSE IF choice[1] = "delete" THEN DeleteAssignedLetter(s, stroke_start_idx)
    ELSE assign_letter_to_stroke(s, stroke_start_idx, choice[2])

-----------------------------------------------------------------------------
(* Stroke selection and letter assignment, relabel build *)

select_stroke(s, stroke_idx, add_to_selection) ==
    IF stroke_idx < 0 \/ stroke_idx >= Len(s.canvas.stroke_starts) THEN s
    ELSE LET sel == s.canvas.selected_strokes
             nsel == IF add_to_selection
                     THEN IF stroke_idx \in sel
                          THEN IF Cardinality(sel) > 1 THEN sel \ {stroke_idx} ELSE sel
                          ELSE sel \cup {stroke_idx}
                     ELSE {stroke_idx}
             s1 == [s EXCEPT !.canvas.selected_strokes = nsel]
         IN IF nsel # {}
            THEN SliderSetValue(s1, At(s.canvas.stroke_starts, SetMin(nsel)), TRUE)
            ELSE s1

\* mousePressEvent on a letter label: select the letter's strokes
SelectLetterStrokes(s, letter_idx) ==
    LET sel == Range(s.canvas.letters[letter_idx + 1].stroke_ids)
        s1 == [s EXCEPT !.canvas.selected_strokes = sel]
    IN IF sel # {}
       THEN SliderSetValue(s1, At(s.canvas.stroke_starts, SetMin(sel)), TRUE)
       ELSE s1

clear_stroke_selection(s) ==
    [s EXCEPT !.canvas.selected_strokes =
        IF s.canvas.stroke_starts # <<>> THEN {0} ELSE {}]

\* key=lambda l: min(l.stroke_ids) if l.stroke_ids else 999
NoStrokeSortKey == 999
LetterSortKey(l) ==
    IF l.stroke_ids # <<>> THEN SetMin(Range(l.stroke_ids)) ELSE NoStrokeSortKey

RECURSIVE InsertSorted(_, _)
\* insert l after every element whose key is not greater (stable)
InsertSorted(sorted, l) ==
    IF sorted = <<>> THEN <<l>>
    ELSE IF LetterSortKey(Head(sorted)) <= LetterSortKey(l)
         THEN <<Head(sorted)>> \o InsertSorted(Tail(sorted), l)
         ELSE <<l>> \o sorted

\* variant of SortLetters that leaves the list as it is
SortLetters_append_only(letters) == letters

RECURSIVE SortLetters(_)
\* list.sort(key=...): a stable sort
SortLetters(letters) ==
    IF letters = <<>> THEN <<>>
    ELSE InsertSorted(SortLetters(SubSeq(letters, 1, Len(letters) - 1)),
                      letters[Len(letters)])

\* variant of RemainingLetters that evicts no letter
RemainingLetters_keep_all(letters, stroke_ids) == letters

\* [l for l in letters if not (set(l.stroke_ids) & set(stroke_ids))]
RemainingLetters(letters, stroke_ids) ==
    SelectSeq(letters, LAMBDA l : Range(l.stroke_ids) \cap Range(stroke_ids) = {})

\* the tail shared by assign_letter_to_selection and _save_letters_to_word_data:
\* store both letter forms in the word record, update train mode, recompute
SaveLetters(s) ==
    LET wd0 == ActiveWord(s)
        wd1 == DictSet(wd0, "letters", s.canvas.letters)
        wd2 == DictSet(wd1, "assigned_letters",
                       letters_to_assigned_letters(s.canvas.letters, s.canvas.stroke_starts))
        s1 == _update_train_mode_for_letters(SetWord(s, s.current_word_index, wd2))
    IN Recompute(s1, wd2)

_save_letters_to_word_data(s) ==
    IF s.current_word_index < 0 THEN s ELSE SaveLetters(s)

\* the dialog was accepted with text ("" to unassign, else one mapped character)
assign_letter_to_selection(s, text) ==
    IF s.current_word_index < 0 \/ s.canvas.selected_strokes = {} THEN s
    ELSE LET stroke_ids == SortedSeq(s.canvas.selected_strokes)
             remaining_letters == RemainingLetters(s.canvas.letters, stroke_ids)
             letters == IF text = ""
                        THEN remaining_letters
                        ELSE SortLetters(Append(remaining_letters,
                                                LetterObject(text, stroke_ids)))
         IN SaveLetters([s EXCEPT !.canvas.letters = letters])

\* list.pop(i)
Pop(list, i) == SubSeq(list, 1, i) \o SubSeq(list, i + 2, Len(list))

\* choice: <<"delete">> or <<"replace", text>>
edit_letter(s, letter_idx, choice) ==
    IF letter_idx < 0 \/ letter_idx >= Len(s.canvas.letters) THEN s
    ELSE IF choice[1] = "delete"
         THEN _save_letters_to_word_data(
                  [s EXCEPT !.canvas.letters = Pop(@, letter_idx)])
    ELSE assign_letter_to_selection(
             [s EXCEPT !.canvas.selected_strokes =
                  Range(s.canvas.letters[letter_idx + 1].stroke_ids)],
             choice[2])

-----------------------------------------------------------------------------
(* Stroke structural editor: slice_stroke_at_current *)

\* end = stroke_ends[i] if i < len(stroke_ends) else len(pen_events) - 1
StrokeEndOf(pen_events, stroke_ends, i) ==
    IF i < Len(stroke_ends) THEN At(stroke_ends, i) ELSE Len(pen_events) - 1

\* the loop "for i, start in enumerate(stroke_starts)": the set of stroke
\* indices whose [start, end] holds idx; the loop breaks at the first
StrokesHolding(pen_events, idx) ==
    LET strokes == find_stroke_indices(pen_events)
    IN {i \in 0..(Len(strokes[1]) - 1) :
           At(strokes[1], i) <= idx /\ idx <= StrokeEndOf(pen_events, strokes[2], i)}

\* variant of SliceGuard without the test of the event's type
SliceGuard_no_type_check(s) ==
    LET pen_events == DictGet(WordAt(s, s.current_word_index), "pen_events", <<>>)
        idx == s.current_event_index
        holding == StrokesHolding(pen_events, idx)
        strokes == find_stroke_indices(pen_events)
    IN IF s.current_word_index < 0 THEN "no word"
       ELSE IF pen_events = <<>> \/ idx <= 0 THEN "No valid event selected."
       ELSE IF holding = {} THEN "Could not find current stroke."
       ELSE IF idx = At(strokes[1], SetMin(holding))
               \/ idx = StrokeEndOf(pen_events, strokes[2], SetMin(holding))
            THEN "Cannot slice at the first or last event of a stroke."
       ELSE "ok"

\* the guards of slice_stroke_at_current, in the order of the code: the name
\* of the guard that rejects, or "ok"
SliceGuard(s) ==
    LET pen_events == DictGet(ActiveWord(s), "pen_events", <<>>)
        idx == s.current_event_index
        holding == StrokesHolding(pen_events, idx)
        strokes == find_stroke_indices(pen_events)
    IN IF s.current_word_index < 0 THEN "no word"
       ELSE IF pen_events = <<>> \/ idx <= 0 THEN "No valid event selected."
       ELSE IF EventAt(pen_events, idx).type # "move"
            THEN "Can only slice at 'move' events (not press/release)."
       ELSE IF holding = {} THEN "Could not find current stroke."
       ELSE IF idx = At(strokes[1], SetMin(holding))
               \/ idx = StrokeEndOf(pen_events, strokes[2], SetMin(holding))
            THEN "Cannot slice at the first or last event of a stroke."
       ELSE "ok"

\* variant of Insert that overwrites element i instead of inserting before it
Insert_overwrite(list, i, x) ==
    IF i < Len(list) THEN [list EXCEPT ![i + 1] = x] ELSE list

\* list.insert(i, x)
Insert(list, i, x) == SubSeq(list, 1, i) \o <<x>> \o SubSeq(list, i + 1, Len(list))

\* variant of ShiftAssigned that moves the keys after the slice point by 1
ShiftAssigned_by_one(assigned, slice_event) ==
    LET NewKey(k) == IF k > slice_event THEN k + 1 ELSE k
    IN [n \in {NewKey(k) : k \in DOMAIN assigned} |->
           assigned[CHOOSE k \in DOMAIN assigned : NewKey(k) = n]]

\* variant of ShiftAssigned that keeps only the keys up to the slice point
ShiftAssigned_drop_later(assigned, slice_event) ==
    [k \in {x \in DOMAIN assigned : x <= slice_event} |-> assigned[k]]

\* insertion build: keys after the slice point move by 2
ShiftAssigned(assigned, slice_event) ==
    LET NewKey(k) == IF k > slice_event THEN k + 2 ELSE k
    IN [n \in {NewKey(k) : k \in DOMAIN assigned} |->
           assigned[CHOOSE k \in DOMAIN assigned : NewKey(k) = n]]

\* the accepted path of slice_stroke_at_current, insertion build
SliceInsert(s) ==
    LET word_data == ActiveWord(s)
        pen_events == word_data.pen_events
        slice_event == s.current_event_index
        current_data == EventAt(pen_events, slice_event)
        release_event == [current_data EXCEPT !.type = "release"]
        press_event == [current_data EXCEPT !.type = "press"]
        events2 == Insert(Insert(pen_events, slice_event + 1, release_event),
                          slice_event + 2, press_event)
        wd1 == [word_data EXCEPT !.pen_events = events2]
        assigned == DictGet(word_data, "assigned_letters", EmptyDict)
        wd2 == IF DOMAIN assigned # {}
               THEN [wd1 EXCEPT !.assigned_letters = ShiftAssigned(assigned, slice_event)]
               ELSE wd1
        s1 == load_word(SetWord(s, s.current_word_index, wd2), "insertion",
                        s.current_word_index)
    IN SliderSetValue(s1, slice_event + 2, FALSE)

\* relabel build: stroke ids after the split stroke move by 1
ShiftStrokeIds(letters, current_stroke_idx) ==
    [i \in DOMAIN letters |->
        LetterObject(letters[i].char,
                     [j \in DOMAIN letters[i].stroke_ids |->
                         IF letters[i].stroke_ids[j] > current_stroke_idx
                         THEN letters[i].stroke_ids[j] + 1
                         ELSE letters[i].stroke_ids[j]])]

\* the two in-place type changes of the relabel build
RelabelEvents(pen_events, slice_event) ==
    LET e1 == [pen_events EXCEPT ![slice_event + 1].type = "release"]
    IN IF slice_event + 1 < Len(pen_events)
       THEN [e1 EXCEPT ![slice_event + 2].type = "press"]
       ELSE e1

\* the accepted path of slice_stroke_at_current, relabel build
SliceRelabel(s) ==
    LET word_data == ActiveWord(s)
        pen_events == word_data.pen_events
        slice_event == s.current_event_index
        current_stroke_idx == SetMin(StrokesHolding(pen_events, slice_event))
        wd1 == [word_data EXCEPT !.pen_events = RelabelEvents(pen_events, slice_event)]
        letters == DictGet(word_data, "letters", <<>>)
        wd2 == IF letters # <<>>
               THEN [wd1 EXCEPT !.letters = ShiftStrokeIds(letters, current_stroke_idx)]
               ELSE wd1
        s1 == load_word(SetWord(s, s.current_word_index, wd2), "relabel",
                        s.current_word_index)
    IN SliderSetValue(s1, slice_event + 1, FALSE)

slice_stroke_at_current(s, b) ==
    IF SliceGuard(s) # "ok" THEN s
    ELSE IF b = "relabel" THEN SliceRelabel(s)
    ELSE SliceInsert(s)

-----------------------------------------------------------------------------
(* Export: the correctness columns, which prefer the cached values *)

\* the "Calculate based on logic" branch, written out in both exports
CalculatedCorrectness(word_data) ==
    LET assigned_letters == DictGet(word_data, "assigned_letters", EmptyDict)
        original_word == DictGet(word_data, "word", <<>>)
    IN IF DOMAIN assigned_letters = {} THEN <<TRUE, original_word>>
       ELSE IF check_partial_or_full_match(assigned_letters, original_word)
            THEN <<TRUE, original_word>>
       ELSE IF has_blocker(assigned_letters) THEN <<FALSE, <<>> >>
       ELSE <<FALSE, build_written_word(assigned_letters)>>

\* <<is_correct, written_word>> of the row of flat index i
ExportedCorrectness(s, flat_idx) ==
    IF flat_idx \in DOMAIN s.word_correctness /\ flat_idx \in DOMAIN s.written_words
    THEN <<s.word_correctness[flat_idx], s.written_words[flat_idx]>>
    ELSE CalculatedCorrectness(WordAt(s, flat_idx))

\* export_to_csv: one row per word with pen events; the Correct and Written
\* Word columns of each row
export_to_csv(s) ==
    [i \in {j \in 0..(Len(s.pen_data) - 1) :
                DictGet(WordAt(s, j), "pen_events", <<>>) # <<>>} |->
        [Correct |-> IF ExportedCorrectness(s, i)[1] THEN "Yes" ELSE "No",
         WrittenWord |-> ExportedCorrectness(s, i)[2]]]

\* export_trainable_json: one entry per word; written_word and trainability
export_trainable_json(s) ==
    [i \in 0..(Len(s.pen_data) - 1) |->
        [written_word |-> ExportedCorrectness(s, i)[2],
         trainability |-> DictGet(s.train_mode, i, "trainable")]]

-----------------------------------------------------------------------------
(* Participant files offered to load_data_files *)

Ev(ty, id) == [type |-> ty, id |-> id]
\* a recorded stream: event i carries sample i
Stream(types) == [i \in DOMAIN types |-> Ev(types[i], i - 1)]

TwoStrokes == Stream(<<"press", "move", "release", "press", "move", "release">>)
\* one stroke followed by a hover sample outside any stroke
OneStroke == Stream(<<"press", "move", "move", "release", "move">>)

\* the shortest stroke: a press and its release
Tap == Stream(<<"press", "release">>)

Builds == {"insertion", "relabel"}

\* the files hold one word or two; "file" stands for the participant's file path
Files(b) ==
    IF b = "insertion"
    THEN <<  <<[word |-> <<"a", "b">>, pen_events |-> TwoStrokes, file |-> 1]>>,
             <<[word |-> <<"a">>, pen_events |-> OneStroke, file |-> 2,
                assigned_letters |-> (0 :> "b")]>>,
             <<[word |-> <<"a">>, pen_events |-> Tap, file |-> 3],
               [word |-> <<"b">>, pen_events |-> Tap, file |-> 3]>>  >>
    ELSE <<  <<[word |-> <<"a", "b">>, pen_events |-> TwoStrokes, file |-> 1,
                assigned_letters |-> (0 :> "a" @@ 3 :> Blocker)]>>,
             <<[word |-> <<"a">>, pen_events |-> OneStroke, file |-> 2,
                letters |-> <<LetterObject("b", <<0>>)>>]>>,
             <<[word |-> <<"a">>, pen_events |-> Tap, file |-> 3],
               [word |-> <<"b">>, pen_events |-> Tap, file |-> 3]>>  >>

-----------------------------------------------------------------------------
(* Specification of the analyzer session *)

\* history of a handler other than the slice button
Other == [op |-> "other"]

PureIdle == [fn |-> "none"]

InitWindow ==
    /\ pen_data = <<>>
    /\ current_word_index = -1
    /\ current_event_index = 0
    /\ total_events = 0
    /\ word_correctness = <<>>
    /\ written_words = <<>>
    /\ train_mode = <<>>
    /\ canvas = [letters |-> <<>>, stroke_starts |-> <<>>, stroke_ends |-> <<>>,
                 selected_strokes |-> {}]
    /\ event_slider = [maximum |-> 0]
    /\ train_mode_combo = "Trainable"
    /\ last = Other

Init ==
    /\ build \in Builds
    /\ InitWindow
    /\ pure = PureIdle

\* the handler ran to completion and left state s
Apply(s, l) ==
    /\ pen_data' = s.pen_data
    /\ current_word_index' = s.current_word_index
    /\ current_event_index' = s.current_event_index
    /\ total_events' = s.total_events
    /\ word_correctness' = s.word_correctness
    /\ written_words' = s.written_words
    /\ train_mode' = s.train_mode
    /\ canvas' = s.canvas
    /\ event_slider' = s.event_slider
    /\ train_mode_combo' = s.train_mode_combo
    /\ last' = l
    /\ UNCHANGED <<build, pure>>

WordLoaded == current_word_index >= 0
ActiveEvents == CanvasPenEvents(State)
ActiveStarts == find_stroke_indices(ActiveEvents)[1]

\* load_data_files: the words of the chosen file are appended; a session of
\* the model analyses one participant file
LoadDataFiles ==
    /\ pen_data = <<>>
    /\ \E f \in DOMAIN Files(build) :
          Apply([State EXCEPT !.pen_data = @ \o Files(build)[f]], Other)

\* word_selected / previous_word / next_word
WordSelected ==
    \E index \in 0..(Len(pen_data) - 1) :
        Apply(load_word(State, build, index), Other)

\* the user moves the event slider (drag, next/previous event, playback)
SliderMoved ==
    \E v \in 0..event_slider.maximum :
        /\ v # current_event_index
        /\ Apply(SliderSetValue(State, v, FALSE), Other)

\* the user picks another entry of the train-mode selector
TrainModeChanged ==
    \E text \in DOMAIN TRAIN_MODE_MAP :
        /\ text # train_mode_combo
        /\ Apply(ComboSetCurrentText(State, text, FALSE), Other)

\* insertion build, Enter on the first event of a stroke
KeyEnterAssign ==
    /\ build = "insertion"
    /\ WordLoaded
    /\ current_event_index \in Range(ActiveStarts)
    /\ \E hebrew_char \in TypedChars \cup {Blocker} :
          Apply(assign_letter_to_stroke(State, current_event_index, hebrew_char),
                Other)

\* insertion build, double click on a stroke (get_stroke_from_point returns the
\* index of the press event of the closest stroke)
DoubleClickAssign ==
    /\ build = "insertion"
    /\ WordLoaded
    /\ \E stroke_start \in Range(ActiveStarts), hebrew_char \in TypedChars \cup {Blocker} :
          Apply(assign_letter_to_stroke(SliderSetValue(State, stroke_start, FALSE),
                                        stroke_start, hebrew_char),
                Other)

\* insertion build, click on a letter label, then Delete or Replace
EditAssignedLetter ==
    /\ build = "insertion"
    /\ WordLoaded
    /\ \E k \in DOMAIN DictGet(ActiveWord(State), "assigned_letters", EmptyDict) :
          \/ Apply(edit_assigned_letter(State, k, <<"delete">>), Other)
          \/ \E hebrew_char \in TypedChars \cup {Blocker} :
                Apply(edit_assigned_letter(State, k, <<"replace", hebrew_char>>),
                      Other)

\* relabel build, click on a stroke or arrow keys, with or without group mode
SelectStroke ==
    /\ build = "relabel"
    /\ WordLoaded
    /\ \E stroke_idx \in 0..(Len(canvas.stroke_starts) - 1), add \in BOOLEAN :
          /\ select_stroke(State, stroke_idx, add) # State
          /\ Apply(select_stroke(State, stroke_idx, add), Other)

\* relabel build, click on a letter label
SelectLetter ==
    /\ build = "relabel"
    /\ WordLoaded
    /\ \E letter_idx \in 0..(Len(canvas.letters) - 1) :
          /\ SelectLetterStrokes(State, letter_idx) # State
          /\ Apply(SelectLetterStrokes(State, letter_idx), Other)

ClearSelection ==
    /\ build = "relabel"
    /\ canvas.selected_strokes # {}
    /\ clear_stroke_selection(State) # State
    /\ Apply(clear_stroke_selection(State), Other)

\* relabel build, Enter or the assign button
AssignLetterToSelection ==
    /\ build = "relabel"
    /\ WordLoaded
    /\ canvas.selected_strokes # {}
    /\ \E text \in TypedChars \cup {""} :
          Apply(assign_letter_to_selection(State, text),
                Other)

\* relabel build, double click on a letter label, then Delete or Replace
EditLetter ==
    /\ build = "relabel"
    /\ WordLoaded
    /\ \E letter_idx \in 0..(Len(canvas.letters) - 1) :
          \/ Apply(edit_letter(State, letter_idx, <<"delete">>), Other)
          \/ \E text \in TypedChars \cup {""} :
                Apply(edit_letter(State, letter_idx, <<"replace", text>>), Other)

\* the slice button (enabled once a word is loaded); a split that inserts
\* events is capped by the model's bound on the length of a stream
SliceStroke ==
    /\ WordLoaded
    /\ (build = "insertion" /\ SliceGuard(State) = "ok")
           => Len(ActiveEvents) + 2 <= MaxEvents
    /\ Apply(slice_stroke_at_current(State, build),
             [op |-> "slice", pre |-> State, outcome |-> SliceGuard(State)])

\* the exports write a file (export_to_csv(State), export_trainable_json(State))
\* and change nothing in the window
ExportToCsv ==
    /\ pen_data # <<>>
    /\ Apply(State, Other)

ExportTrainableJson ==
    /\ pen_data # <<>>
    /\ Apply(State, Other)

Next ==
    \/ LoadDataFiles
    \/ WordSelected
    \/ SliderMoved
    \/ TrainModeChanged
    \/ KeyEnterAssign
    \/ DoubleClickAssign
    \/ EditAssignedLetter
    \/ SelectStroke
    \/ SelectLetter
    \/ ClearSelection
    \/ AssignLetterToSelection
    \/ EditLetter
    \/ SliceStroke
    \/ ExportToCsv
    \/ ExportTrainableJson

Spec == Init /\ [][Next]_vars

-----------------------------------------------------------------------------
(* Specification of the correctness engine as a pure function: the window   *)
(* stays as constructed and compute_correctness_and_written is called on    *)
(* every map over keys 0..MaxKey and every target of up to MaxWordLen chars *)

InitCompute ==
    /\ build \in Builds
    /\ InitWindow
    /\ pure = PureIdle

CallCompute ==
    /\ pure = PureIdle
    /\ \E assigned_letters \in DictsOver(0..MaxKey), original_word \in WordsUpTo(MaxWordLen) :
          pure' = [fn |-> "compute_correctness_and_written",
                   assigned_letters |-> assigned_letters,
                   original_word |-> original_word,
                   result |-> compute_correctness_and_written(assigned_letters,
                                                              original_word)]
    /\ UNCHANGED uiVars

NextCompute == CallCompute

SpecCompute == InitCompute /\ [][NextCompute]_vars

-----------------------------------------------------------------------------
(* Reference notions the claims about the correctness engine are stated in *)

ComputeCalled == pure.fn = "compute_correctness_and_written"

\* the keys of the non-blocker letters
NonBlockerKeys(m) == {k \in DOMAIN m : m[k] # Blocker}

\* the non-blocker characters in ascending key order: character i belongs to
\* the key that has i - 1 smaller non-blocker keys
Written(m) ==
    [i \in 1..Cardinality(NonBlockerKeys(m)) |->
        m[CHOOSE k \in NonBlockerKeys(m) :
              Cardinality({j \in NonBlockerKeys(m) : j < k}) = i - 1]]

\* w is a subsequence of t: an order-preserving embedding of positions exists
IsSubsequence(w, t) ==
    \E f \in [1..Len(w) -> 1..Len(t)] :
        /\ \A i \in 1..Len(w) : t[f[i]] = w[i]
        /\ \A i, j \in 1..Len(w) : i < j => f[i] < f[j]

HasBlocker(m) == \E k \in DOMAIN m : m[k] = Blocker

-----------------------------------------------------------------------------
(* Claims about compute_correctness_and_written (SpecCompute) *)

\* C1: whenever the non-blocker characters in ascending key order form a
\* non-empty subsequence of the target, the result is (True, target), also
\* when the map holds blockers.
C1_SubsequenceReturnsTarget ==
    ComputeCalled =>
        ((/\ Written(pure.assigned_letters) # <<>>
          /\ IsSubsequence(Written(pure.assigned_letters), pure.original_word))
            => pure.result = <<TRUE, pure.original_word>>)

\* a partial match next to a blocker was computed
C1_Witness ==
    /\ ComputeCalled
    /\ HasBlocker(pure.assigned_letters)
    /\ Written(pure.assigned_letters) # <<>>
    /\ Written(pure.assigned_letters) # pure.original_word
    /\ IsSubsequence(Written(pure.assigned_letters), pure.original_word)
    /\ pure.result = <<TRUE, pure.original_word>>

\* C2: with an empty map the result is (True, target) for every target.
C2_EmptyMapReturnsTarget ==
    (ComputeCalled /\ pure.assigned_letters = EmptyDict)
        => pure.result = <<TRUE, pure.original_word>>

\* the empty map was computed against a target of full length
C2_Witness ==
    /\ ComputeCalled
    /\ pure.assigned_letters = EmptyDict
    /\ Len(pure.original_word) = MaxWordLen
    /\ pure.result = <<TRUE, pure.original_word>>

\* the map matches the target: its written word is a non-empty subsequence
Matches(m, t) == Written(m) # <<>> /\ IsSubsequence(Written(m), t)

\* C3: a non-empty map that does not match the target is incorrect; the
\* written word is "" when a letter is a blocker and the ascending-key
\* concatenation of the characters otherwise.
C3_MismatchReturnsWritten ==
    (/\ ComputeCalled
     /\ pure.assigned_letters # EmptyDict
     /\ ~Matches(pure.assigned_letters, pure.original_word))
        => pure.result = <<FALSE, IF HasBlocker(pure.assigned_letters) THEN <<>>
                                  ELSE Written(pure.assigned_letters)>>

\* a mismatch with a blocker next to a character was computed
C3_Witness ==
    /\ ComputeCalled
    /\ HasBlocker(pure.assigned_letters)
    /\ Written(pure.assigned_letters) # <<>>
    /\ ~IsSubsequence(Written(pure.assigned_letters), pure.original_word)
    /\ pure.result = <<FALSE, <<>> >>

\* C4 (as stated): is_correct is True exactly when the map is empty or the
\* written word, empty when every letter is a blocker, is a subsequence of
\* the target.
C4_Original ==
    ComputeCalled =>
        (pure.result[1] <=>
            (\/ pure.assigned_letters = EmptyDict
             \/ IsSubsequence(Written(pure.assigned_letters), pure.original_word)))

\* C4 (amended): is_correct is True exactly when the map is empty or the
\* written word is non-empty and a subsequence of the target; the greedy
\* matcher agrees with the reference subsequence relation on every non-empty
\* written word, and a map of blockers only is incorrect.
C4_CorrectIffNonEmptySubsequence ==
    ComputeCalled =>
        (pure.result[1] <=>
            (\/ pure.assigned_letters = EmptyDict
             \/ Matches(pure.assigned_letters, pure.original_word)))

\* a map of blockers only was computed and found incorrect
C4_Witness ==
    /\ ComputeCalled
    /\ pure.assigned_letters # EmptyDict
    /\ Written(pure.assigned_letters) = <<>>
    /\ pure.result = <<FALSE, <<>> >>

-----------------------------------------------------------------------------
(* Claims about the cached correctness of the active word (Spec) *)

ActiveTarget == DictGet(ActiveWord(State), "word", <<>>)

\* the cached pair of the active word, <<>> when one of the two is missing
CachedCorrectness ==
    IF current_word_index \in DOMAIN word_correctness
       /\ current_word_index \in DOMAIN written_words
    THEN <<word_correctness[current_word_index], written_words[current_word_index]>>
    ELSE <<>>

\* C5 (as stated): in the insertion build, once a word is loaded, the cached
\* word_correctness and written_words of the active word equal
\* compute_correctness_and_written of its current assigned_letters and target
\* after every letter mutation, and so does what the exports emit for it.
C5_Original ==
    (build = "insertion" /\ WordLoaded) =>
        LET r == compute_correctness_and_written(
                     DictGet(ActiveWord(State), "assigned_letters", EmptyDict),
                     ActiveTarget)
        IN /\ CachedCorrectness = r
           /\ ExportedCorrectness(State, current_word_index) = r
           /\ export_to_csv(State)[current_word_index].WrittenWord = r[2]
           /\ export_trainable_json(State)[current_word_index].written_word = r[2]

\* C6 (as stated): in the relabel build, once a word is loaded, the cached
\* word_correctness and written_words of the active word equal
\* compute_correctness_and_written of the flattening of the canvas's current
\* Letter list and the target, whether the record carried assigned_letters
\* or letters.
C6_Original ==
    (build = "relabel" /\ WordLoaded) =>
        CachedCorrectness =
            compute_correctness_and_written(
                letters_to_assigned_letters(canvas.letters, canvas.stroke_starts),
                ActiveTarget)

-----------------------------------------------------------------------------
(* Claims about the Letter list of the relabel build (Spec) *)

SliceAccepted == last.op = "slice" /\ last.outcome = "ok"
RelabelAccepted == build = "relabel" /\ SliceAccepted

\* no stroke id belongs to two Letters of the list
NoSharedStroke(letters) ==
    \A i, j \in DOMAIN letters :
        i # j => Range(letters[i].stroke_ids) \cap Range(letters[j].stroke_ids) = {}

\* C7: in the relabel build no stroke id appears in the stroke_ids of two
\* different Letters of a word, on the canvas and in the stored records, after
\* any sequence of assignments, unassignments, deletions and stroke splits.
C7_NoStrokeInTwoLetters ==
    build = "relabel" =>
        /\ NoSharedStroke(canvas.letters)
        /\ \A w \in DOMAIN pen_data :
              "letters" \in DOMAIN pen_data[w] => NoSharedStroke(pen_data[w].letters)

\* a split has just shifted the stroke ids of a word that holds two Letters,
\* one of them over several strokes
C7_Witness ==
    /\ RelabelAccepted
    /\ Len(canvas.letters) >= 2
    /\ canvas.letters # last.pre.canvas.letters
    /\ \E i \in DOMAIN canvas.letters : Len(canvas.letters[i].stroke_ids) >= 2

-----------------------------------------------------------------------------
(* Claims about slice_stroke_at_current (Spec) *)

PreEvents == DictGet(ActiveWord(last.pre), "pen_events", <<>>)
SliceEvent == last.pre.current_event_index

\* the current event lies in no stroke, or is the first or the last event of
\* the stroke it lies in
AtStrokeBoundary(pen_events, idx) ==
    LET holding == StrokesHolding(pen_events, idx)
        strokes == find_stroke_indices(pen_events)
    IN \/ holding = {}
       \/ idx = At(strokes[1], SetMin(holding))
       \/ idx = StrokeEndOf(pen_events, strokes[2], SetMin(holding))

\* the cases in which a split is to be rejected
MustReject(s) ==
    LET pen_events == DictGet(ActiveWord(s), "pen_events", <<>>)
        idx == s.current_event_index
    IN \/ idx = 0
       \/ EventAt(pen_events, idx).type # "move"
       \/ AtStrokeBoundary(pen_events, idx)

\* C8: a slice requested at event 0, at an event that is not a Move, at the
\* first or last event of its stroke or at an event in no stroke leaves the
\* events, the letters, the cached correctness and written word, the
\* trainability and the current event index as they were, in both builds.
C8_RejectedSliceChangesNothing ==
    (last.op = "slice" /\ MustReject(last.pre)) =>
        /\ last.outcome # "ok"
        /\ pen_data = last.pre.pen_data
        /\ canvas.letters = last.pre.canvas.letters
        /\ word_correctness = last.pre.word_correctness
        /\ written_words = last.pre.written_words
        /\ train_mode = last.pre.train_mode
        /\ train_mode_combo = last.pre.train_mode_combo
        /\ current_event_index = last.pre.current_event_index
        /\ total_events = last.pre.total_events

\* a slice was requested at a Move event that is the last event of its stroke,
\* in a word that holds a letter
C8_Witness ==
    /\ last.op = "slice"
    /\ SliceEvent > 0
    /\ EventAt(PreEvents, SliceEvent).type = "move"
    /\ StrokesHolding(PreEvents, SliceEvent) # {}
    /\ AtStrokeBoundary(PreEvents, SliceEvent)
    /\ DOMAIN DictGet(ActiveWord(last.pre), "assigned_letters", EmptyDict) # {}
    /\ pen_data = last.pre.pen_data

RECURSIVE StrokeScan(_, _, _)
\* the strokes of a stream from position i on: a stroke begins at the first
\* press after the previous release and ends at the next release
StrokeScan(pen_events, i, open) ==
    IF i > Len(pen_events) THEN 0
    ELSE IF pen_events[i].type = "press" /\ ~open
         THEN StrokeScan(pen_events, i + 1, TRUE)
    ELSE IF pen_events[i].type = "release" /\ open
         THEN 1 + StrokeScan(pen_events, i + 1, FALSE)
    ELSE StrokeScan(pen_events, i + 1, open)

NumStrokes(pen_events) == StrokeScan(pen_events, 1, FALSE)

\* only the types of events E and E + 1 differ between the two streams
OnlyTwoTypesChanged(before, after, E) ==
    /\ Len(after) = Len(before)
    /\ EventAt(after, E) = [EventAt(before, E) EXCEPT !.type = "release"]
    /\ EventAt(after, E + 1) = [EventAt(before, E + 1) EXCEPT !.type = "press"]
    /\ \A i \in 0..(Len(before) - 1) :
          i \notin {E, E + 1} => EventAt(after, i) = EventAt(before, i)

\* C9 (as stated): an accepted relabel split at Move event E changes only the
\* type of E to release and of E + 1 to press, keeps the event count and every
\* other event, and the word has exactly one stroke more, also when E is the
\* event immediately before the stroke's release.
C9_Original ==
    RelabelAccepted =>
        /\ OnlyTwoTypesChanged(PreEvents, ActiveEvents, SliceEvent)
        /\ NumStrokes(ActiveEvents) = NumStrokes(PreEvents) + 1

\* C9 (what holds): an accepted relabel split changes only the types of E and
\* E + 1 and adds exactly one press event to the word; the word gains a
\* release event only when E + 1 was a Move.
C9_SplitRelabelsTwoEvents ==
    RelabelAccepted =>
        /\ OnlyTwoTypesChanged(PreEvents, ActiveEvents, SliceEvent)
        /\ Len(find_stroke_indices(ActiveEvents)[1])
              = Len(find_stroke_indices(PreEvents)[1]) + 1
        /\ Len(find_stroke_indices(ActiveEvents)[2])
              = Len(find_stroke_indices(PreEvents)[2])
                  + (IF EventAt(PreEvents, SliceEvent + 1).type = "move" THEN 1 ELSE 0)

\* a split was accepted at the Move immediately before the stroke's release
C9_Witness ==
    /\ RelabelAccepted
    /\ EventAt(PreEvents, SliceEvent + 1).type = "release"
    /\ EventAt(ActiveEvents, SliceEvent + 1).type = "press"

\* C10 (as stated): after an accepted relabel split of stroke s, the stroke
\* holding E, every stroke id above s in every Letter is one higher, every
\* other stroke id is as before, and each stroke id of each Letter denotes the
\* press event it denoted before the split.
C10_Original ==
    RelabelAccepted =>
        LET before == last.pre.canvas.letters
            after == canvas.letters
            starts_before == last.pre.canvas.stroke_starts
            starts_after == canvas.stroke_starts
            s == get_stroke_id_for_event(SliceEvent, starts_before)
        IN /\ Len(after) = Len(before)
           /\ \A i \in DOMAIN before :
                 /\ after[i].char = before[i].char
                 /\ Len(after[i].stroke_ids) = Len(before[i].stroke_ids)
                 /\ \A j \in DOMAIN before[i].stroke_ids :
                       LET id == before[i].stroke_ids[j]
                           nid == after[i].stroke_ids[j]
                       IN /\ nid = IF id > s THEN id + 1 ELSE id
                          /\ nid < Len(starts_after)
                          /\ At(starts_after, nid) = At(starts_before, id)

-----------------------------------------------------------------------------
(* Claims about the split of the insertion build (Spec) *)

InsertionAccepted == build = "insertion" /\ SliceAccepted

PreAssigned == DictGet(ActiveWord(last.pre), "assigned_letters", EmptyDict)
ActiveAssigned == DictGet(ActiveWord(State), "assigned_letters", EmptyDict)

\* where the event of index k is found after two events were inserted behind E
AfterInsertion(k, E) == IF k > E THEN k + 2 ELSE k

\* C11: an accepted split of the insertion build at Move event E puts a
\* release-typed copy of E at E + 1 and a press-typed copy at E + 2, the
\* stream grows by exactly 2 and every original event keeps its content and
\* order; every letter key above E grows by 2, every other key is unchanged,
\* every letter keeps its character and stays keyed to the same original event.
C11_DuplicateSplitInsertsTwo ==
    InsertionAccepted =>
        LET E == SliceEvent
        IN /\ Len(ActiveEvents) = Len(PreEvents) + 2
           /\ EventAt(ActiveEvents, E + 1) = [EventAt(PreEvents, E) EXCEPT !.type = "release"]
           /\ EventAt(ActiveEvents, E + 2) = [EventAt(PreEvents, E) EXCEPT !.type = "press"]
           /\ \A i \in 0..(Len(PreEvents) - 1) :
                 EventAt(ActiveEvents, AfterInsertion(i, E)) = EventAt(PreEvents, i)
           /\ DOMAIN ActiveAssigned = {AfterInsertion(k, E) : k \in DOMAIN PreAssigned}
           /\ \A k \in DOMAIN PreAssigned :
                 /\ ActiveAssigned[AfterInsertion(k, E)] = PreAssigned[k]
                 /\ EventAt(ActiveEvents, AfterInsertion(k, E)) = EventAt(PreEvents, k)

\* a split was accepted in a word with a letter before and a letter after E
C11_Witness ==
    /\ InsertionAccepted
    /\ \E k \in DOMAIN PreAssigned : k <= SliceEvent
    /\ \E k \in DOMAIN PreAssigned :
          k > SliceEvent /\ k + 2 \in DOMAIN ActiveAssigned /\ k \notin DOMAIN ActiveAssigned

\* the stroke the split event lies in, before the split
SplitStroke == get_stroke_id_for_event(SliceEvent, find_stroke_indices(PreEvents)[1])

\* C12 (as stated): after an accepted split of the insertion build every
\* stroke located after the split stroke has its positional stroke id
\* increased by 2.
C12_Original ==
    InsertionAccepted =>
        LET before == find_stroke_indices(PreEvents)[1]
            after == find_stroke_indices(ActiveEvents)[1]
        IN \A i \in (SplitStroke + 1)..(Len(before) - 1) :
              /\ i + 2 < Len(after)
              /\ At(after, i + 2) = At(before, i) + 2

\* C12 (amended): after an accepted split of the insertion build the word has
\* one stroke more and every stroke located after the split stroke has its
\* positional stroke id increased by 1, while the index of its press event is
\* increased by 2.
C12_StrokeIdShiftsByOne ==
    InsertionAccepted =>
        LET before == find_stroke_indices(PreEvents)[1]
            after == find_stroke_indices(ActiveEvents)[1]
        IN /\ Len(after) = Len(before) + 1
           /\ \A i \in 0..SplitStroke : At(after, i) = At(before, i)
           /\ At(after, SplitStroke + 1) = SliceEvent + 2
           /\ \A i \in (SplitStroke + 1)..(Len(before) - 1) :
                 At(after, i + 1) = At(before, i) + 2

\* a split was accepted in a stroke that has a stroke after it
C12_Witness ==
    /\ InsertionAccepted
    /\ SplitStroke + 1 < Len(find_stroke_indices(PreEvents)[1])
    /\ Len(find_stroke_indices(ActiveEvents)[1]) = Len(find_stroke_indices(PreEvents)[1]) + 1

-----------------------------------------------------------------------------
(* Claims about the letter content across a split (Spec) *)

\* how often each character, the blocker included, occurs among the values of
\* a legacy map
MapContent(m) == [c \in CharValues |-> Cardinality({k \in DOMAIN m : m[k] = c})]

\* how often each character occurs among the Letters of a list
ListContent(letters) ==
    [c \in CharValues |-> Cardinality({i \in DOMAIN letters : letters[i].char = c})]

\* C13: an accepted split leaves the multiset of characters, blockers
\* included, and the number of letters of the word as they were: the
\* re-keyed assigned_letters in the insertion build, the Letter list with its
\* shifted stroke ids in the relabel build.
C13_SplitKeepsLetterContent ==
    SliceAccepted =>
        IF build = "insertion"
        THEN /\ MapContent(ActiveAssigned) = MapContent(PreAssigned)
             /\ Cardinality(DOMAIN ActiveAssigned) = Cardinality(DOMAIN PreAssigned)
        ELSE /\ ListContent(canvas.letters) = ListContent(last.pre.canvas.letters)
             /\ Len(canvas.letters) = Len(last.pre.canvas.letters)
             /\ "letters" \in DOMAIN ActiveWord(last.pre) =>
                   /\ "letters" \in DOMAIN ActiveWord(State)
                   /\ ListContent(ActiveWord(State).letters)
                         = ListContent(ActiveWord(last.pre).letters)
                   /\ Len(ActiveWord(State).letters) = Len(ActiveWord(last.pre).letters)

\* a split of the insertion build re-keyed a word that holds a character and
\* a blocker
C13_Witness ==
    /\ InsertionAccepted
    /\ ActiveAssigned # PreAssigned
    /\ \E k \in DOMAIN ActiveAssigned : ActiveAssigned[k] = Blocker
    /\ \E k \in DOMAIN ActiveAssigned : ActiveAssigned[k] # Blocker

-----------------------------------------------------------------------------
(* Specification of downsample_stroke_events as a pure function: the window *)
(* stays as constructed and the function is called once on a list of up to  *)
(* MaxSampleLen samples with non-decreasing capture times                   *)

SampleTypes == {"press", "move", "release"}
\* capture times in milliseconds: the origin, and two instants more than the
\* default interval apart
SampleTimes == {0, 30, 60}
\* positions: two points the default distance apart
SampleXs == {0, 3}
Samples == [type : SampleTypes, x : SampleXs, y : {0}, absolute_time : SampleTimes]

SampleLists ==
    UNION {{l \in [1..n -> Samples] :
               \A i \in 1..(n - 1) : l[i].absolute_time <= l[i + 1].absolute_time}
           : n \in 0..MaxSampleLen}

\* the default interval and an interval no pair of SampleTimes reaches
Intervals == {DefaultInterval, 100}

InitDownsample ==
    /\ build = "relabel"
    /\ InitWindow
    /\ pure = PureIdle

CallDownsample ==
    /\ pure = PureIdle
    /\ \E events \in SampleLists, target_interval_ms \in Intervals :
          pure' = [fn |-> "downsample_stroke_events",
                   events |-> events,
                   target_interval_ms |-> target_interval_ms,
                   min_distance_px |-> DefaultDistance,
                   result |-> downsample_stroke_events(events, target_interval_ms,
                                                       DefaultDistance)]
    /\ UNCHANGED uiVars

NextDownsample == CallDownsample

SpecDownsample == InitDownsample /\ [][NextDownsample]_vars

-----------------------------------------------------------------------------
(* Claims C14-C16: downsample_stroke_events, checked under SpecDownsample *)

DownsampleCalled == pure.fn = "downsample_stroke_events"

Last(s) == s[Len(s)]

PressOrRelease(event) == event.type \in {"press", "release"}

\* C14 as stated: for every event list, of any length and any event types,
\* and any thresholds, the returned list starts with the input's first
\* element, ends with the input's last element and is no longer than the input.
C14_Original ==
    DownsampleCalled =>
        /\ Len(pure.result) <= Len(pure.events)
        /\ pure.events # <<>> =>
              /\ pure.result # <<>>
              /\ Head(pure.result) = Head(pure.events)
              /\ Last(pure.result) = Last(pure.events)

\* What the code guarantees for C14: the result is never longer than the
\* input, the first element is always the input's first, and the last element
\* is the input's last when the list has at most two events or ends with a
\* press or a release.
C14_EndsRetainedWhenLastIsPressOrRelease ==
    DownsampleCalled =>
        /\ Len(pure.result) <= Len(pure.events)
        /\ pure.events # <<>> =>
              /\ pure.result # <<>>
              /\ Head(pure.result) = Head(pure.events)
              /\ (Len(pure.events) <= 2 \/ PressOrRelease(Last(pure.events)))
                    => Last(pure.result) = Last(pure.events)

\* a stroke of four events whose interior was thinned and whose ends were kept
C14_Witness ==
    /\ DownsampleCalled
    /\ Len(pure.events) = 4
    /\ pure.events[1].type = "press"
    /\ pure.events[4].type = "release"
    /\ Len(pure.result) < 4
    /\ Head(pure.result) = pure.events[1]
    /\ Last(pure.result) = pure.events[4]

\* a stroke: a press, then moves only, then a release
IsStroke(events) ==
    /\ Len(events) >= 2
    /\ events[1].type = "press"
    /\ Last(events).type = "release"
    /\ \A i \in 2..(Len(events) - 1) : events[i].type = "move"

\* the retention rule of the specification, applied to one event against the
\* last retained one: elapsed time at least the interval, or Euclidean distance
\* at least the minimum distance
RuleRetains(event, kept, target_interval_ms, min_distance_px) ==
    \/ event.absolute_time - kept.absolute_time >= target_interval_ms
    \/ (event.x - kept.x) * (event.x - kept.x) + (event.y - kept.y) * (event.y - kept.y)
          >= min_distance_px * min_distance_px

RECURSIVE RetainedByRule(_, _, _, _, _)
\* the events of a stroke retained by the rule, from position i on, given the
\* non-empty sequence of events retained so far
RetainedByRule(events, i, retained, target_interval_ms, min_distance_px) ==
    IF i > Len(events) THEN retained
    ELSE IF i = Len(events) \/ RuleRetains(events[i], Last(retained),
                                           target_interval_ms, min_distance_px)
         THEN RetainedByRule(events, i + 1, Append(retained, events[i]),
                             target_interval_ms, min_distance_px)
         ELSE RetainedByRule(events, i + 1, retained,
                             target_interval_ms, min_distance_px)

StrokeByRule ==
    RetainedByRule(pure.events, 2, <<pure.events[1]>>,
                   pure.target_interval_ms, pure.min_distance_px)

\* C15 as stated: on a stroke of more than two events an interior move is
\* retained if and only if the rule retains it against the last retained event,
\* whatever the timestamp of that event, 0 included.
C15_Original ==
    (DownsampleCalled /\ IsStroke(pure.events) /\ Len(pure.events) > 2)
        => pure.result = StrokeByRule

\* What the code guarantees for C15: the rule decides the interior moves of a
\* stroke none of whose events is stamped 0.
C15_RuleHoldsAwayFromZero ==
    (DownsampleCalled /\ IsStroke(pure.events) /\ Len(pure.events) > 2
       /\ \A i \in 1..Len(pure.events) : pure.events[i].absolute_time # 0)
        => pure.result = StrokeByRule

\* a stroke stamped away from 0 with one interior move dropped and a later one
\* retained on elapsed time alone, measured from the press
C15_Witness ==
    /\ DownsampleCalled
    /\ pure.target_interval_ms = 25
    /\ IsStroke(pure.events) /\ Len(pure.events) = 4
    /\ \A i \in 1..4 : pure.events[i].x = 0
    /\ pure.events[1].absolute_time = 30
    /\ pure.events[2].absolute_time = 30
    /\ pure.events[3].absolute_time = 60
    /\ pure.result = <<pure.events[1], pure.events[3], pure.events[4]>>

\* the press and release events of a list, in order
PressesAndReleases(events) == SelectSeq(events, PressOrRelease)

\* C16: every press and every release of the input is in the output,
\* unmodified and in the original order, and the output is an
\* order-preserving subsequence of the input; so the output has as many
\* presses and as many releases as the input.
C16_PressReleaseRetained ==
    DownsampleCalled =>
        /\ PressesAndReleases(pure.result) = PressesAndReleases(pure.events)
        /\ IsSubsequence(pure.result, pure.events)
        /\ Len(find_stroke_indices(pure.result)[1]) = Len(find_stroke_indices(pure.events)[1])
        /\ Len(find_stroke_indices(pure.result)[2]) = Len(find_stroke_indices(pure.events)[2])

\* a list holding a release that fails both thresholds next to a dropped move
C16_Witness ==
    /\ DownsampleCalled
    /\ Len(pure.events) = 4
    /\ pure.events[1].type = "press"
    /\ pure.events[2].type = "move"
    /\ pure.events[3].type = "release"
    /\ pure.events[4].type = "press"
    /\ \A i \in 1..4 : pure.events[i].x = 0 /\ pure.events[i].absolute_time = 30
    /\ pure.result = <<pure.events[1], pure.events[3], pure.events[4]>>

-----------------------------------------------------------------------------
(* Specification of the two letter conversions as pure functions: the window *)
(* stays as constructed and a legacy map is converted to Letter objects and  *)
(* back once, against the stroke starts of some event stream                 *)

\* the stroke_starts lists find_stroke_indices can return for streams of up to
\* MaxKey + 2 events: the ascending lists of event indices
StrokeStartsLists == {SortedSeq(S) : S \in SUBSET (0..(MaxKey + 1))}

InitConvert ==
    /\ build = "relabel"
    /\ InitWindow
    /\ pure = PureIdle

CallRoundTrip ==
    /\ pure = PureIdle
    /\ \E assigned_letters \in DictsOver(0..MaxKey), stroke_starts \in StrokeStartsLists :
          LET letters == assigned_letters_to_letters(assigned_letters, stroke_starts)
          IN pure' = [fn |-> "round_trip",
                      assigned_letters |-> assigned_letters,
                      stroke_starts |-> stroke_starts,
                      letters |-> letters,
                      result |-> letters_to_assigned_letters(letters, stroke_starts)]
    /\ UNCHANGED uiVars

\* keys and stroke starts of one and of two decimal digits
WideKey == 10
WideKeys == (0..MaxKey) \cup {WideKey}
WideStrokeStartsLists == {SortedSeq(S) : S \in SUBSET ((0..(MaxKey + 1)) \cup {WideKey})}

CallAssignedToLetters ==
    /\ pure = PureIdle
    /\ \E assigned_letters \in DictsOver(WideKeys), stroke_starts \in WideStrokeStartsLists :
          pure' = [fn |-> "assigned_letters_to_letters",
                   assigned_letters |-> assigned_letters,
                   stroke_starts |-> stroke_starts,
                   result |-> assigned_letters_to_letters(assigned_letters, stroke_starts)]
    /\ UNCHANGED uiVars

\* Letter objects with a character or none and any set of stroke ids
SampleLetters ==
    {LetterObject(c, SortedSeq(S)) : c \in TypedChars \cup {Blocker}, S \in SUBSET (0..MaxKey)}

RECURSIVE LetterListsUpTo(_)
LetterListsUpTo(n) ==
    IF n = 0 THEN {<<>>}
    ELSE LET L == LetterListsUpTo(n - 1)
         IN L \cup {Append(l, x) : l \in {y \in L : Len(y) = n - 1}, x \in SampleLetters}

CallLettersToAssigned ==
    /\ pure = PureIdle
    /\ \E letters \in LetterListsUpTo(MaxLetters), stroke_starts \in StrokeStartsLists :
          pure' = [fn |-> "letters_to_assigned_letters",
                   letters |-> letters,
                   stroke_starts |-> stroke_starts,
                   result |-> letters_to_assigned_letters(letters, stroke_starts)]
    /\ UNCHANGED uiVars

NextConvert ==
    \/ CallRoundTrip
    \/ CallAssignedToLetters
    \/ CallLettersToAssigned

SpecConvert == InitConvert /\ [][NextConvert]_vars

-----------------------------------------------------------------------------
(* Claim C17: round trip of the legacy map, checked under SpecConvert *)

RoundTripCalled == pure.fn = "round_trip"

\* every key of the map is the start index of a stroke
KeyedByStrokeStarts(m, stroke_starts) == DOMAIN m \subseteq Range(stroke_starts)

\* C17 as stated: for every stroke_starts list and every legacy map (each of
\* whose letters occupies one stroke once converted) the round trip gives the
\* map back.
C17_Original ==
    (RoundTripCalled /\ \A i \in 1..Len(pure.letters) : Len(pure.letters[i].stroke_ids) = 1)
        => pure.result = pure.assigned_letters

\* C17, amended: the round trip gives the map back, same keys and same
\* characters, blockers included, exactly when every key of the map is the
\* start index of a stroke.
C17_RoundTripOnStrokeStarts ==
    RoundTripCalled =>
        (pure.result = pure.assigned_letters
            <=> KeyedByStrokeStarts(pure.assigned_letters, pure.stroke_starts))

\* a map with a letter and a blocker on the starts of the second and third of
\* three strokes, given back unchanged
C17_Witness ==
    /\ RoundTripCalled
    /\ Len(pure.stroke_starts) = 3
    /\ Cardinality(DOMAIN pure.assigned_letters) = 2
    /\ DOMAIN pure.assigned_letters = {At(pure.stroke_starts, 1), At(pure.stroke_starts, 2)}
    /\ Blocker \in Range(pure.assigned_letters)
    /\ Range(pure.assigned_letters) # {Blocker}
    /\ pure.result = pure.assigned_letters

-----------------------------------------------------------------------------
(* Specification of should_be_low_quality as a pure function: the window    *)
(* stays as constructed and the function is called once on a legacy map and *)
(* an event stream of up to MaxKey + 1 events of any types                  *)

RECURSIVE TypeListsUpTo(_)
TypeListsUpTo(n) ==
    IF n = 0 THEN {<<>>}
    ELSE LET L == TypeListsUpTo(n - 1)
         IN L \cup {Append(l, ty) : l \in {x \in L : Len(x) = n - 1},
                                    ty \in {"press", "move", "release"}}

InitLowQuality ==
    /\ build = "insertion"
    /\ InitWindow
    /\ pure = PureIdle

CallShouldBeLowQuality ==
    /\ pure = PureIdle
    /\ \E assigned_letters \in DictsOver(0..MaxKey), types \in TypeListsUpTo(MaxKey + 1) :
          pure' = [fn |-> "should_be_low_quality",
                   assigned_letters |-> assigned_letters,
                   pen_events |-> Stream(types),
                   result |-> should_be_low_quality(assigned_letters, Stream(types))]
    /\ UNCHANGED uiVars

NextLowQuality == CallShouldBeLowQuality

SpecLowQuality == InitLowQuality /\ [][NextLowQuality]_vars

-----------------------------------------------------------------------------
(* Claims C18, C19: the low-quality heuristic *)

HasStroke(events) == \E i \in 1..Len(events) : events[i].type = "press"

\* 0-based index of the first press event of a stream that has one
FirstPress(events) == SetMin({i \in 0..(Len(events) - 1) : EventAt(events, i).type = "press"})

\* the two cases of the heuristic, for a word with a letter and a stroke
ShouldFlag(m, events) ==
    /\ DOMAIN m # {}
    /\ HasStroke(events)
    /\ HasBlocker(m) \/ SetMin(DOMAIN m) # FirstPress(events)

ActiveTrainMode == DictGet(train_mode, current_word_index, "trainable")

\* a step that changes the letters of the active word and not its events
LetterMutation ==
    /\ WordLoaded /\ WordLoaded'
    /\ current_word_index' = current_word_index
    /\ ActiveEvents' = ActiveEvents
    /\ ActiveAssigned' # ActiveAssigned

\* C18 (the function): for a word with at least one letter and at least one
\* stroke should_be_low_quality returns True exactly when a letter is a blocker
\* or the smallest key is not the index of the first press event; it returns
\* False for a word without letters and for a word without events.
C18_HeuristicExact ==
    pure.fn = "should_be_low_quality" =>
        /\ (DOMAIN pure.assigned_letters # {} /\ HasStroke(pure.pen_events))
              => (pure.result <=> ShouldFlag(pure.assigned_letters, pure.pen_events))
        /\ (DOMAIN pure.assigned_letters = {} \/ pure.pen_events = <<>>)
              => ~pure.result

C19_LowQualityStays ==
    [][\A i \in DOMAIN train_mode :
          train_mode[i] = "low-quality" =>
              \/ DictGet(train_mode', i, "trainable") = "low-quality"
              \/ TrainModeChanged /\ i = current_word_index]_vars

\* the active word has lost all its letters, so the heuristic flags it no
\* longer, and it is still low-quality
C19_Witness ==
    /\ WordLoaded
    /\ "assigned_letters" \in DOMAIN ActiveWord(State)
    /\ ActiveAssigned = EmptyDict
    /\ ~should_be_low_quality(ActiveAssigned, ActiveEvents)
    /\ ActiveTrainMode = "low-quality"
    /\ train_mode_combo = "Low-Quality Trainable"

-----------------------------------------------------------------------------
(* Specification of the stroke records of the trainable export as a pure    *)
(* function of a word's events: the window stays as constructed and the     *)
(* strokes list is built once for a stream of up to MaxSampleLen events of  *)
(* any types                                                                *)

InitExportStrokes ==
    /\ build = "relabel"
    /\ InitWindow
    /\ pure = PureIdle

CallExportStrokes ==
    /\ pure = PureIdle
    /\ \E pen_events \in SampleLists :
          pure' = [fn |-> "export_strokes",
                   pen_events |-> pen_events,
                   stroke_starts |-> find_stroke_indices(pen_events)[1],
                   stroke_ends |-> find_stroke_indices(pen_events)[2],
                   strokes |-> ExportStrokes(pen_events)]
    /\ UNCHANGED uiVars

NextExportStrokes == CallExportStrokes

SpecExportStrokes == InitExportStrokes /\ [][NextExportStrokes]_vars

-----------------------------------------------------------------------------
(* Claim C20: stroke detection and positional pairing (SpecExportStrokes) *)

ExportStrokesCalled == pure.fn = "export_strokes"

\* l lists the elements of the set S of integers in ascending order, each once
AscendingListOf(l, S) ==
    /\ Range(l) = S
    /\ \A i \in 1..(Len(l) - 1) : l[i] < l[i + 1]

IndexSetOfType(events, ty) == {i \in 0..(Len(events) - 1) : events[i + 1].type = ty}

\* C20: for every event sequence, well-formed or not, stroke_starts is the
\* ascending list of all press indices and stroke_ends the ascending list of
\* all release indices; the export emits exactly min(#press, #release) stroke
\* records, with stroke_id 0..n-1, record i built from the events between the
\* i-th press and the i-th release, whatever the two counts are.
C20_PositionalPairing ==
    ExportStrokesCalled =>
        LET P == IndexSetOfType(pure.pen_events, "press")
            R == IndexSetOfType(pure.pen_events, "release")
        IN /\ AscendingListOf(pure.stroke_starts, P)
           /\ AscendingListOf(pure.stroke_ends, R)
           /\ Len(pure.strokes) = Min(Cardinality(P), Cardinality(R))
           /\ \A n \in 1..Len(pure.strokes) :
                 /\ pure.strokes[n].stroke_id = n - 1
                 /\ pure.strokes[n].events =
                       downsample_stroke_events(
                           SubSeq(pure.pen_events, pure.stroke_starts[n] + 1,
                                  pure.stroke_ends[n] + 1),
                           DefaultInterval, DefaultDistance)

\* two presses and one release: one record, for the first press and the release
C20_Witness ==
    /\ ExportStrokesCalled
    /\ Len(pure.stroke_starts) = 2
    /\ Len(pure.stroke_ends) = 1
    /\ pure.stroke_starts[1] < pure.stroke_ends[1]
    /\ Len(pure.strokes) = 1
    /\ pure.strokes[1].stroke_id = 0
    /\ pure.strokes[1].events # <<>>

-----------------------------------------------------------------------------
(* Specification of a session on a participant file of two words, the       *)
(* second of which can be split: the handlers are those of Spec             *)

\* a stroke with one interior sample
Short == Stream(<<"press", "move", "release">>)

TwoWordFile ==
    <<[word |-> <<"a">>, pen_events |-> Tap, file |-> 4],
      [word |-> <<"b">>, pen_events |-> Short, file |-> 4]>>

LoadTwoWordFile ==
    /\ pen_data = <<>>
    /\ Apply([State EXCEPT !.pen_data = @ \o TwoWordFile], Other)

SliceStrokeTwoWords ==
    /\ WordLoaded
    /\ (build = "insertion" /\ SliceGuard(State) = "ok")
           => Len(ActiveEvents) + 2 <= MaxEventsTwoWords
    /\ Apply(slice_stroke_at_current(State, build),
             [op |-> "slice", pre |-> State, outcome |-> SliceGuard(State)])

NextTwoWords ==
    \/ LoadTwoWordFile
    \/ WordSelected
    \/ SliderMoved
    \/ TrainModeChanged
    \/ KeyEnterAssign
    \/ DoubleClickAssign
    \/ EditAssignedLetter
    \/ SelectStroke
    \/ SelectLetter
    \/ ClearSelection
    \/ AssignLetterToSelection
    \/ EditLetter
    \/ SliceStrokeTwoWords
    \/ ExportToCsv
    \/ ExportTrainableJson

SpecTwoWords == Init /\ [][NextTwoWords]_vars

-----------------------------------------------------------------------------
(* Claim C21: frame of the handlers (SpecTwoWords) *)

Unset == "unset"

\* what the window holds for the word of index i
WordView(s, i) ==
    [word_data |-> WordAt(s, i),
     word_correctness |-> DictGet(s.word_correctness, i, Unset),
     written_words |-> DictGet(s.written_words, i, Unset),
     train_mode |-> DictGet(s.train_mode, i, Unset)]

\* C21: every step that keeps the active word (letter assignment, deletion,
\* stroke split, automatic trainability update, and every other handler but
\* navigation and file loading) leaves the pen events, letters,
\* assigned_letters, cached correctness, cached written word and trainability
\* of every other loaded word unchanged.
C21_OtherWordsUnchanged ==
    [][(WordLoaded /\ current_word_index' = current_word_index
          /\ Len(pen_data') = Len(pen_data))
         => \A i \in 0..(Len(pen_data) - 1) :
               i # current_word_index => WordView(State', i) = WordView(State, i)]_vars

\* the second word has just been split while the first word holds a letter
\* and a trainability of its own, both as before the split
C21_Witness ==
    /\ last.op = "slice" /\ last.outcome = "ok"
    /\ Len(pen_data) = 2
    /\ current_word_index = 1
    /\ DictGet(WordAt(State, 0), "assigned_letters", EmptyDict) # EmptyDict
    /\ DictGet(train_mode, 0, Unset) = "low-quality"
    /\ WordView(State, 0) = WordView(last.pre, 0)
    /\ WordAt(State, 1) # WordAt(last.pre, 1)

-----------------------------------------------------------------------------
(* Claim C22: assigned_letters_to_letters (SpecConvert) *)

AssignedToLettersCalled == pure.fn = "assigned_letters_to_letters"

\* the i-th smallest element of a set of integers
NthSmallest(S, i) == CHOOSE k \in S : Cardinality({j \in S : j < k}) = i - 1

\* 0-based index of the last stroke whose start is at most k, 0 when there is none
LastStrokeNotAfter(k, stroke_starts) ==
    LET I == {j \in 0..(Len(stroke_starts) - 1) : At(stroke_starts, j) <= k}
    IN IF I = {} THEN 0 ELSE SetMax(I)

\* C22: assigned_letters_to_letters emits exactly one Letter per key, in
\* ascending numeric key order, each with the character of its key (empty for
\* a blocker) and exactly one stroke id, the index of the last stroke whose
\* start is at most the key, 0 when there is no such stroke.
C22_OneLetterPerKey ==
    AssignedToLettersCalled =>
        LET m == pure.assigned_letters
        IN /\ Len(pure.result) = Cardinality(DOMAIN m)
           /\ \A i \in 1..Len(pure.result) :
                 LET k == NthSmallest(DOMAIN m, i)
                 IN pure.result[i] =
                       LetterObject(m[k], <<LastStrokeNotAfter(k, pure.stroke_starts)>>)

\* keys 2 and 10, whose numeric and string orders differ, the first a blocker
\* before every stroke, the second a letter in the last of two strokes
C22_Witness ==
    /\ AssignedToLettersCalled
    /\ DOMAIN pure.assigned_letters = {2, WideKey}
    /\ pure.assigned_letters[2] = Blocker
    /\ pure.stroke_starts = <<3, WideKey>>
    /\ pure.result = <<LetterObject(Blocker, <<0>>),
                       LetterObject(pure.assigned_letters[WideKey], <<1>>)>>
    /\ pure.assigned_letters[WideKey] # Blocker

-----------------------------------------------------------------------------
(* Claim C23: letters_to_assigned_letters (SpecConvert) *)

LettersToAssignedCalled == pure.fn = "letters_to_assigned_letters"

MinStroke(letter) == SetMin(Range(letter.stroke_ids))

\* the letter has a stroke and its first stroke is a stroke of the word
Keyed(letter, stroke_starts) ==
    letter.stroke_ids # <<>> /\ MinStroke(letter) < Len(stroke_starts)

KeyOf(letter, stroke_starts) == At(stroke_starts, MinStroke(letter))

\* C23 as stated: every Letter with non-empty stroke_ids is found in the map
\* under the key stroke_starts[min(stroke_ids)] with its char, and the Letters
\* without stroke_ids are the only ones left out.
C23_Original ==
    LettersToAssignedCalled =>
        /\ \A i \in 1..Len(pure.letters) :
              pure.letters[i].stroke_ids # <<>> =>
                  /\ Keyed(pure.letters[i], pure.stroke_starts)
                  /\ KeyOf(pure.letters[i], pure.stroke_starts) \in DOMAIN pure.result
                  /\ pure.result[KeyOf(pure.letters[i], pure.stroke_starts)]
                        = pure.letters[i].char
        /\ \A k \in DOMAIN pure.result :
              \E i \in 1..Len(pure.letters) :
                  /\ pure.letters[i].stroke_ids # <<>>
                  /\ k = KeyOf(pure.letters[i], pure.stroke_starts)

\* C23, amended: the keys of the map are stroke_starts[min(stroke_ids)] of the
\* Letters that have a stroke id and whose smallest one is below
\* len(stroke_starts); each key holds the char of the last such Letter of the
\* list; a Letter without stroke ids, or whose smallest stroke id is not a
\* stroke of the word, is dropped.
C23_KeyedByFirstStroke ==
    LettersToAssignedCalled =>
        LET I == {i \in 1..Len(pure.letters) : Keyed(pure.letters[i], pure.stroke_starts)}
        IN /\ DOMAIN pure.result = {KeyOf(pure.letters[i], pure.stroke_starts) : i \in I}
           /\ \A k \in DOMAIN pure.result :
                 pure.result[k] =
                    pure.letters[SetMax({i \in I :
                        KeyOf(pure.letters[i], pure.stroke_starts) = k})].char

\* a letter on strokes 1 and 2 of three, keyed by the start of stroke 1, next
\* to a letter without strokes, which is dropped
C23_Witness ==
    /\ LettersToAssignedCalled
    /\ Len(pure.stroke_starts) = 3
    /\ Len(pure.letters) = 2
    /\ pure.letters[1].stroke_ids = <<>>
    /\ pure.letters[2].stroke_ids = <<1, 2>>
    /\ pure.letters[2].char # Blocker
    /\ pure.result = (At(pure.stroke_starts, 1) :> pure.letters[2].char)

-----------------------------------------------------------------------------
(* Claim C24: assign_letter_to_selection and the order of the Letter list *)

\* the list is sorted ascending by minimum stroke id
SortedByMinStroke(letters) ==
    \A i \in 1..(Len(letters) - 1) :
        LetterSortKey(letters[i]) <= LetterSortKey(letters[i + 1])

Intersects(l, sel) == Range(l.stroke_ids) \cap sel # {}

\* the step is assign_letter_to_selection with the non-empty character text
\* (from the assign button, or from Replace on a letter label, which selects
\* the letter's strokes first); the selection it worked on is the one it leaves
AssignStep(text) ==
    /\ build = "relabel" /\ WordLoaded
    /\ last' = Other
    /\ current_word_index' = current_word_index
    /\ canvas.selected_strokes' # {}
    /\ State' = assign_letter_to_selection(
                    [State EXCEPT !.canvas.selected_strokes = canvas.selected_strokes'],
                    text)

\* C24: assign_letter_to_selection with a non-empty character removes every
\* Letter whose stroke_ids intersect the selection, keeps every other Letter
\* unchanged and in order, adds exactly one Letter whose stroke_ids are the
\* selected ids ascending, and leaves the list sorted by minimum stroke id;
\* and the Letter list of a session is sorted by minimum stroke id in every
\* state, after any sequence of assign, unassign, delete and split.
C24_AssignEvictsAndSorts ==
    /\ [][\A text \in TypedChars :
              AssignStep(text) =>
                 LET sel == canvas.selected_strokes'
                 IN /\ SortedByMinStroke(canvas.letters')
                    /\ \E p \in 1..Len(canvas.letters') :
                          /\ canvas.letters'[p] = LetterObject(text, SortedSeq(sel))
                          /\ Pop(canvas.letters', p - 1)
                                = SelectSeq(canvas.letters,
                                            LAMBDA l : ~Intersects(l, sel))]_vars
    /\ [](build = "relabel" =>
             /\ SortedByMinStroke(canvas.letters)
             /\ WordLoaded => SortedByMinStroke(DictGet(ActiveWord(State), "letters", <<>>)))

\* one letter on both strokes of a word loaded with a letter on each: the
\* assignment evicted the two
C24_Witness ==
    /\ build = "relabel"
    /\ WordLoaded
    /\ Len(ActiveEvents) = Len(TwoStrokes)
    /\ canvas.letters = <<LetterObject("a", <<0, 1>>)>>
    /\ DictGet(ActiveWord(State), "letters", <<>>) = canvas.letters

-----------------------------------------------------------------------------
(* Specification of build_letter_segments as a pure function: the window    *)
(* stays as constructed and the function is called once on a legacy map and *)
(* a number of events                                                       *)

InitSegments ==
    /\ build = "insertion"
    /\ InitWindow
    /\ pure = PureIdle

CallBuildLetterSegments ==
    /\ pure = PureIdle
    /\ \E assigned_letters \in DictsOver(0..MaxKey), num_events \in 0..(MaxKey + 2) :
          pure' = [fn |-> "build_letter_segments",
                   assigned_letters |-> assigned_letters,
                   num_events |-> num_events,
                   result |-> build_letter_segments(assigned_letters, num_events)]
    /\ UNCHANGED uiVars

NextSegments == CallBuildLetterSegments

SpecSegments == InitSegments /\ [][NextSegments]_vars

-----------------------------------------------------------------------------
(* Claim C25: build_letter_segments (SpecSegments) *)

SegmentsCalled == pure.fn = "build_letter_segments"

\* the event indices of a segment
Covered(seg) == seg.first_event..seg.last_event

-----------------------------------------------------------------------------
(* Claim C26: well-formedness of the stream under the relabel split *)

\* the events have the form (press, move*, release)+
WellFormed(events) ==
    /\ events # <<>>
    /\ events[1].type = "press"
    /\ events[Len(events)].type = "release"
    /\ \A i \in 1..(Len(events) - 1) :
          IF events[i].type = "release"
          THEN events[i + 1].type = "press"
          ELSE events[i + 1].type \in {"move", "release"}

\* C26 as stated: if the events of the word have the form
\* (press, move*, release)+ before an accepted relabel split, they have it
\* after the split, with as many press events as release events.
C26_Original ==
    (RelabelAccepted /\ WellFormed(PreEvents)) =>
        /\ WellFormed(ActiveEvents)
        /\ Len(find_stroke_indices(ActiveEvents)[1]) = Len(find_stroke_indices(ActiveEvents)[2])

-----------------------------------------------------------------------------
(* Claim C27: the two letter representations of the relabel build *)

\* the word record holds both forms: an edit has written its letters list
EditedWord(word_data) ==
    "letters" \in DOMAIN word_data /\ "assigned_letters" \in DOMAIN word_data

\* the legacy map is the flattening of the letters list on the word's strokes
FormsAgree(word_data) ==
    word_data.assigned_letters
        = letters_to_assigned_letters(word_data.letters,
                                      find_stroke_indices(word_data.pen_events)[1])

\* C27 as stated: in the relabel build, once an edit has written the letters
\* list of a word, its stored assigned_letters equals
\* letters_to_assigned_letters(letters, current stroke_starts) after any
\* further sequence of assign, unassign, delete and stroke-split operations.
C27_Original ==
    build = "relabel" =>
        \A i \in 0..(Len(pen_data) - 1) :
            EditedWord(WordAt(State, i)) => FormsAgree(WordAt(State, i))

-----------------------------------------------------------------------------
(* Claim C28: the keys of the legacy map in the insertion build *)

\* every key of the word's assigned_letters is the index of a press event
KeysOnPresses(word_data) ==
    LET pen_events == DictGet(word_data, "pen_events", <<>>)
    IN \A k \in DOMAIN DictGet(word_data, "assigned_letters", EmptyDict) :
          /\ 0 <= k /\ k < Len(pen_events)
          /\ EventAt(pen_events, k).type = "press"

\* C28: in the insertion build, for words loaded with keys on press events or
\* without letters, every key of assigned_letters is a valid event index whose
\* event is a press after any sequence of Enter and double-click assignments,
\* replacements, deletions and duplicate splits; and a split makes no two
\* letters collide: the word has as many letters after it as before.
C28_KeysArePressEvents ==
    build = "insertion" =>
        /\ \A i \in 0..(Len(pen_data) - 1) : KeysOnPresses(WordAt(State, i))
        /\ SliceAccepted =>
              Cardinality(DOMAIN ActiveAssigned) = Cardinality(DOMAIN PreAssigned)

\* a split before the second stroke of a word with a letter on each stroke:
\* the second letter has moved with its press event
C28_Witness ==
    /\ InsertionAccepted
    /\ Cardinality(DOMAIN ActiveAssigned) = 2
    /\ \E k \in DOMAIN PreAssigned :
          /\ k > SliceEvent
          /\ k + 2 \in DOMAIN ActiveAssigned
          /\ EventAt(ActiveEvents, k + 2).type = "press"
          /\ EventAt(ActiveEvents, k).type # "press"

-----------------------------------------------------------------------------
(* Claim C29: the automatic update and a word marked untrainable *)

\* C29 as stated: a word that is untrainable before a letter assignment or
\* deletion on it is untrainable afterwards.
C29_Original ==
    [][(LetterMutation /\ ActiveTrainMode = "untrainable")
          => ActiveTrainMode' = "untrainable"]_vars

\* C29, what the update guarantees: a letter mutation on an untrainable word
\* leaves it untrainable when the heuristic does not flag the resulting
\* letters, and makes it low-quality, in the mapping and in the selector,
\* when it does.
C29_UntrainableKeptUnlessFlagged ==
    [][(LetterMutation /\ ActiveTrainMode = "untrainable")
          => IF should_be_low_quality(ActiveAssigned', ActiveEvents')
                THEN /\ ActiveTrainMode' = "low-quality"
                     /\ train_mode_combo' = "Low-Quality Trainable"
                ELSE ActiveTrainMode' = "untrainable"]_vars

\* a word marked untrainable has a letter on its first stroke, which the
\* heuristic does not flag
C29_Witness ==
    /\ WordLoaded
    /\ ActiveTrainMode = "untrainable"
    /\ DOMAIN ActiveAssigned # {}
    /\ ~should_be_low_quality(ActiveAssigned, ActiveEvents)

-----------------------------------------------------------------------------
(* Claim C30: downsample_stroke_events applied to its own output, checked   *)
(* under SpecDownsample                                                     *)

\* the call on the recorded output with the recorded thresholds
Resampled ==
    downsample_stroke_events(pure.result, pure.target_interval_ms, pure.min_distance_px)

\* C30: downsample_stroke_events is idempotent and deterministic: applied to
\* its own output with the same thresholds it returns that output unchanged,
\* and a second run on the recorded input returns the recorded output.
C30_Idempotent ==
    DownsampleCalled =>
        /\ Resampled = pure.result
        /\ downsample_stroke_events(pure.events, pure.target_interval_ms,
                                    pure.min_distance_px) = pure.result

\* a stroke that lost a move and kept another one on a threshold: the output
\* is long enough for the second run to go through the loop
C30_Witness ==
    /\ DownsampleCalled
    /\ Len(pure.result) < Len(pure.events)
    /\ Len(pure.result) > 2
    /\ \E i \in 2..Len(pure.result) : pure.result[i].type = "move"

=============================================================================
